---- MODULE Spec2Model ----
(***************************************************************************)
(* Dukejia-bot: the retrieval-augmented query pipeline.                    *)
(*   Spec            server.mjs: /api/ask with hot reload of the index     *)
(*   SpecLive        Spec, with every pending watch event handled          *)
(*   SpecServerless  api/ask.js (serverless port, src/api/health.mjs)      *)
(*   SpecLegacy      the legacy serverless ask (src/unnamed/part_000)      *)
(*   SpecChunk       scripts/embed.mjs: chunkText                          *)
(*   SpecChunkLive   SpecChunk, with the loop running on to its end        *)
(*   SpecBuild       scripts/embed.mjs: main, the batch embedding loop     *)
(*   SpecPrune       scripts/prune-index.mjs                               *)
(*   SpecSessions    server.mjs: /api/ask with /api/reset, /api/session    *)
(*                   and /api/history                                      *)
(*   SpecSearch      server.mjs: the top-k retrieval and its gate          *)
(*   SpecTalk        server.mjs: the small-talk intent of a text           *)
(*   SpecMode        server.mjs: detectResponseMode                        *)
(*   SpecClean       cleanForEmbedding of server.mjs, scripts/embed.mjs    *)
(*                   and src/unnamed/part_001, and the text sent to embed  *)
(* Text is a sequence of one-character strings.  A character outside       *)
(* ASCII is written with a stand-in: "@" is a Devanagari letter            *)
(* (U+0900..U+097F), "~" the waving-hand emoji, "^" the folded-hands emoji.*)
(***************************************************************************)
EXTENDS Integers, Sequences, FiniteSets, TLC

VARIABLES
  file,        \* the index file at EMB_PATH: absent, corrupt, or JSON with its vectors
  watching,    \* fs.watch(EMB_PATH) was installed at start-up
  watchEvent,  \* a change event of the watcher waits for its callback
  TOP_K,       \* process.env.TOP_K as parsed at start-up
  VECTORS,     \* the in-memory index
  sessions,    \* sid -> [history, createdAt, lastSeen, hits]; absent sids are not in the domain
  clock,       \* Date.now(), advanced by each request that enters the middleware
  reqs,        \* the ask requests, each with its position in the handler
  ct,          \* chunkText: its arguments, locals and position
  bld,         \* embed.mjs main: allChunks, the batch loop and the written payload
  prn,         \* prune-index.mjs: the configured names, the file before and after
  fn           \* a call of one function of server.mjs alone: its arguments, locals, result

vars ==
  <<file, watching, watchEvent, TOP_K, VECTORS, sessions, clock, reqs, ct, bld, prn, fn>>

(* ------------------------------ text ---------------------------------- *)

Chars(s) == [i \in 1..Len(s) |-> SubSeq(s, i, i)]

LowerLetters ==
  {"a","b","c","d","e","f","g","h","i","j","k","l","m",
   "n","o","p","q","r","s","t","u","v","w","x","y","z"}

UpperLetters ==
  {"A","B","C","D","E","F","G","H","I","J","K","L","M",
   "N","O","P","Q","R","S","T","U","V","W","X","Y","Z"}

DigitChars == {"0","1","2","3","4","5","6","7","8","9"}

\* \s of a JavaScript regular expression, and what String.prototype.trim removes
WhiteSpace == {" ", "\t", "\n", "\r"}

\* \w of a JavaScript regular expression
WordChars == LowerLetters \cup UpperLetters \cup DigitChars \cup {"_"}

\* the character class U+0900..U+097F
Devanagari == {"@"}

UpperSeq == Chars("ABCDEFGHIJKLMNOPQRSTUVWXYZ")

LowerSeq == Chars("abcdefghijklmnopqrstuvwxyz")

toLowerCaseChar(c) ==
  IF c \in UpperLetters
    THEN LowerSeq[CHOOSE i \in 1..26 : UpperSeq[i] = c]
    ELSE c

toLowerCase(s) == [i \in 1..Len(s) |-> toLowerCaseChar(s[i])]

trim(s) ==
  LET keep == {i \in 1..Len(s) : s[i] \notin WhiteSpace}
  IN  IF keep = {} THEN <<>>
      ELSE LET lo == CHOOSE i \in keep : \A j \in keep : i <= j
               hi == CHOOSE i \in keep : \A j \in keep : j <= i
           IN  SubSeq(s, lo, hi)

\* w occurs in t right after the first p characters
LitAt(t, p, w) ==
  /\ p + Len(w) <= Len(t)
  /\ \A i \in 1..Len(w) : t[p + i] = w[i]

includes(t, w) == \E p \in 0..Len(t) : LitAt(t, p, w)

startsWith(t, w) == LitAt(t, 0, w)

endsWith(t, w) == Len(w) <= Len(t) /\ LitAt(t, Len(t) - Len(w), w)

(* ----------------------- regular expressions --------------------------- *)
(* An alternative of a pattern is [words, plus]: the literal words in      *)
(* order, \s* between two consecutive words, then any number of further    *)
(* characters of the set plus ("hi+" is the word "hi" with plus {"i"}).    *)
(* Patterns carry the i flag, so the text is compared lower-cased.         *)

Alt(ws, plus) == [words |-> [i \in 1..Len(ws) |-> Chars(ws[i])], plus |-> plus]

Lit(w) == Alt(<<w>>, {})

RECURSIVE WordsEnds(_, _, _, _)
WordsEnds(t, p, words, k) ==
  IF k > Len(words) THEN {p}
  ELSE LET starts == IF k = 1 THEN {p}
                     ELSE {s \in p..Len(t) : \A i \in (p + 1)..s : t[i] \in WhiteSpace}
       IN  UNION { IF LitAt(toLowerCase(t), s, words[k])
                     THEN WordsEnds(t, s + Len(words[k]), words, k + 1)
                     ELSE {} : s \in starts }

\* the positions at which alternative a, started after p characters, can end
AltEnds(t, p, a) ==
  UNION { {e2 \in e..Len(t) : \A i \in (e + 1)..e2 : toLowerCaseChar(t[i]) \in a.plus}
          : e \in WordsEnds(t, p, a.words, 1) }

IsWordAt(t, i) == i \in 1..Len(t) /\ t[i] \in WordChars

\* \b after the first e characters
WordBoundary(t, e) == IsWordAt(t, e) # IsWordAt(t, e + 1)

\* /^(alts)\b/i
TestPrefix(t, alts) ==
  \E a \in alts : \E e \in AltEnds(t, 0, a) : WordBoundary(t, e)

\* /(alts)\b/i
TestAnywhere(t, alts) ==
  \E p \in 0..Len(t) : \E a \in alts : \E e \in AltEnds(t, p, a) : WordBoundary(t, e)

\* /^(alts)$/i
TestWhole(t, alts) ==
  \E a \in alts : Len(t) \in AltEnds(t, 0, a)

(* ------------------- detectResponseMode (server.mjs) ------------------- *)

hinglishTokens ==
  << "hai","hain","tha","thi","the","kya","kyu","kyun","kyunki","kisi","kis","kaun",
     "kab","kaha","kahaan","kaise","nahi","nahin","ka","ki","ke","mein","me","mai",
     "mei","hum","ap","aap","tum","kr","kar","karo","karna","chahiye","bhi","sirf",
     "jaldi","kitna","ho","hoga","hogaya","krdo","pls","plz","yaar","shukriya",
     "dhanyavaad","dhanyavad" >>

\* the token list of the legacy handler (part_000 line 25)
legacyTokens ==
  << "hai","hain","kya","kyu","kyunki","kab","kaha","kaise","nahi","ka","ki","ke",
     "mein","me","mai","hum","aap","tum","kr","kar","karo","chahiye","bhi" >>

\* a token counted wherever its letters occur
TokenInside(text, tok) == includes(text, Chars(tok))

TokenHit(text, tok) ==
  LET t == Chars(tok)
  IN  \/ includes(text, <<" ">> \o t \o <<" ">>)
      \/ startsWith(text, t \o <<" ">>)
      \/ endsWith(text, <<" ">> \o t)
      \/ text = t

\* the number of list tokens that occur as a whole word (each token counts once)
TokenScore(text, toks) == Cardinality({i \in 1..Len(toks) : TokenHit(text, toks[i])})

\* /[:)(!?]{2,}|\.{3,}|(emoji)/ matches somewhere
HasChatCue(text) ==
  \/ \E p \in 1..(Len(text) - 1) :
       text[p] \in {":", ")", "(", "!", "?"} /\ text[p + 1] \in {":", ")", "(", "!", "?"}
  \/ \E p \in 1..(Len(text) - 2) : text[p] = "." /\ text[p + 1] = "." /\ text[p + 2] = "."
  \/ \E p \in 1..Len(text) : text[p] = "^"

\* twice the score of the source, so that the 0.5 of a chat cue is the integer 1
ModeScore2(text, toks) == 2 * TokenScore(text, toks) + (IF HasChatCue(text) THEN 1 ELSE 0)

detectResponseModeWith(q, toks) ==
  LET text == toLowerCase(q)
  IN  IF \E i \in 1..Len(text) : text[i] \in Devanagari THEN "hinglish"
      ELSE IF ModeScore2(text, toks) >= 4 THEN "hinglish" ELSE "english"

detectResponseMode(q) == detectResponseModeWith(q, hinglishTokens)

(* --------------------------- small talk -------------------------------- *)

KINDS == {"hello", "morning", "afternoon", "evening", "ack", "thanks", "bye", "help"}

HELLO_SHORT  == {Chars("hi"), Chars("hey"), Chars("yo"), Chars("sup")}

BYE_SHORT    == {Chars("bye"), Chars("bb"), Chars("ciao"), Chars("gn")}

THANKS_SHORT == {Chars("ty"), Chars("thx"), Chars("tnx"), Chars("tx")}

GM_SHORT     == {Chars("gm")}

GA_SHORT     == {Chars("ga")}

GE_SHORT     == {Chars("ge")}

\* q.toLowerCase().trim().replace(/[^a-z]/g, "")
shortOf(q) == SelectSeq(trim(toLowerCase(q)), LAMBDA c : c \in LowerLetters)

\* a handler without the quick path
noQuickKind(q) == "none"

\* "none" is the null of the source
quickKindOf(q) ==
  LET short == shortOf(q)
  IN  IF short \in HELLO_SHORT THEN "hello"
      ELSE IF short \in BYE_SHORT THEN "bye"
      ELSE IF short \in THANKS_SHORT THEN "thanks"
      ELSE IF short \in GM_SHORT THEN "morning"
      ELSE IF short \in GA_SHORT THEN "afternoon"
      ELSE IF short \in GE_SHORT THEN "evening"
      ELSE "none"

helloAlts ==
  { Alt(<<"hi">>, {"i"}), Alt(<<"hi">>, {"i", "y"}), Alt(<<"hy">>, {"i", "y"}),
    Alt(<<"hello">>, {"o"}), Lit("hey"), Lit("hey there"), Alt(<<"hlo">>, {"o"}),
    Alt(<<"yo">>, {"o"}), Lit("hola"), Lit("namaste"), Lit("namaskar"), Lit("salaam"),
    Lit("salam"), Lit("~"), Lit("^") }

morningAlts == { Alt(<<"good", "morning">>, {}), Lit("gm") }

afternoonAlts == { Alt(<<"good", "afternoon">>, {}), Lit("ga") }

eveningAlts == { Alt(<<"good", "evening">>, {}), Lit("ge") }

ackAlts ==
  { Alt(<<"ok">>, {"k"}), Alt(<<"okay">>, {"y"}), Alt(<<"okk">>, {"k"}),
    Alt(<<"hmm">>, {"m"}), Alt(<<"haan">>, {"n"}), Alt(<<"ha">>, {"a"}),
    Lit("sure"), Lit("done"), Lit("great"), Lit("nice"), Lit("cool"), Lit("perfect"),
    Lit("thik"), Lit("theek"), Lit("fine") }

thanksAlts ==
  { Lit("thanks"), Alt(<<"thank", "you">>, {}), Lit("thx"), Lit("tnx"), Lit("ty"),
    Alt(<<"much", "appreciated">>, {}), Alt(<<"much", "thanks">>, {}),
    Lit("appreciate"), Lit("appreciated"), Lit("shukriya"), Lit("dhanyavaad"),
    Lit("dhanyavad") }

byeAlts ==
  { Lit("bye"), Lit("bb"), Alt(<<"good", "bye">>, {}), Lit("goodbye"),
    Alt(<<"see", "ya">>, {}), Alt(<<"see", "you">>, {}), Alt(<<"take", "care">>, {}),
    Lit("tc"), Lit("ciao"), Lit("gn") }

helpAlts ==
  { Alt(<<"who", "are", "you">>, {}), Alt(<<"what", "can", "you", "do">>, {}),
    Lit("help"), Lit("menu"), Lit("options"), Alt(<<"how", "to", "use">>, {}) }

\* the ordered pattern list; the last pattern is not anchored
patterns ==
  << [kind |-> "hello",     alts |-> helloAlts,     anchored |-> TRUE],
     [kind |-> "morning",   alts |-> morningAlts,   anchored |-> TRUE],
     [kind |-> "afternoon", alts |-> afternoonAlts, anchored |-> TRUE],
     [kind |-> "evening",   alts |-> eveningAlts,   anchored |-> TRUE],
     [kind |-> "ack",       alts |-> ackAlts,       anchored |-> TRUE],
     [kind |-> "thanks",    alts |-> thanksAlts,    anchored |-> TRUE],
     [kind |-> "bye",       alts |-> byeAlts,       anchored |-> TRUE],
     [kind |-> "help",      alts |-> helpAlts,      anchored |-> FALSE] >>

PatternTest(p, t) ==
  IF p.anchored THEN TestPrefix(t, p.alts) ELSE TestAnywhere(t, p.alts)

\* the kind of the first pattern that matches, "none" for null
smallTalkMatch(q) ==
  LET t == trim(q)
      hits == {i \in 1..Len(patterns) : PatternTest(patterns[i], t)}
  IN  IF hits = {} THEN "none"
      ELSE patterns[CHOOSE i \in hits : \A j \in hits : i <= j].kind

\* q.replace(/[?.!\s]/g, "") === ""
isBlankOf(q) == \A i \in 1..Len(q) : q[i] \in {"?", ".", "!"} \cup WhiteSpace

greetingWordAlts ==
  { Alt(<<"hi">>, {"i"}), Alt(<<"hello">>, {"o"}), Lit("hey"), Lit("hey there"),
    Alt(<<"hlo">>, {"o"}), Lit("namaste"), Lit("namaskar"), Lit("salaam"),
    Lit("gm"), Lit("ga"), Lit("ge"), Lit("~"), Lit("^") }

isGreetingWordOf(q) == TestWhole(trim(q), greetingWordAlts)

GREETING_KINDS == {"hello", "morning", "afternoon", "evening"}

\* const FRONTEND_GREETS = true
FRONTEND_GREETS == TRUE

\* the number of candidate strings of a kind in makeSmallTalkReply (both banks agree)
BankSize(kind) == IF kind \in {"hello", "thanks", "bye"} THEN 2 ELSE 1

(* ------------------------- cosine and retrieval ------------------------ *)

Min(a, b) == IF a <= b THEN a ELSE b

RECURSIVE SumTo(_, _)
SumTo(f, n) == IF n = 0 THEN 0 ELSE f[n] + SumTo(f, n - 1)

(* cosineSim(a, b) = dot / (sqrt(na) * sqrt(nb) || 1) over the first           *)
(* min(a.length, b.length) components.  The value is kept exactly, as          *)
(* num / sqrt(sq): sq is na * nb, or 1 when that product is 0 (the || 1).      *)
cosineSim(a, b) ==
  LET n   == Min(Len(a), Len(b))
      dot == SumTo([i \in 1..n |-> a[i] * b[i]], n)
      na  == SumTo([i \in 1..n |-> a[i] * a[i]], n)
      nb  == SumTo([i \in 1..n |-> b[i] * b[i]], n)
  IN  [num |-> dot, sq |-> IF na * nb = 0 THEN 1 ELSE na * nb]

Abs(x) == IF x < 0 THEN -x ELSE x

\* s < t, as real numbers: x |-> x * |x| is increasing
ScoreLess(s, t) == s.num * Abs(s.num) * t.sq < t.num * Abs(t.num) * s.sq

\* const MIN_OK_SCORE = 0.18, as 18 / sqrt(10000)
MIN_OK_SCORE == [num |-> 18, sq |-> 10000]

\* VECTORS.map((v) => ({ ...v, score: cosineSim(qVec, v.embedding) }))
WithScores(vecs, qVec) ==
  [i \in 1..Len(vecs) |-> [v |-> vecs[i], score |-> cosineSim(qVec, vecs[i].embedding)]]

\* a retrieval that does not sort
KeepOrder(xs) == xs

\* .sort((a, b) => b.score - a.score): descending and stable
SortByScore(xs) ==
  LET before(i, j) == \/ ScoreLess(xs[j].score, xs[i].score)
                      \/ (~ScoreLess(xs[i].score, xs[j].score) /\ i < j)
      rank(i) == Cardinality({j \in 1..Len(xs) : before(j, i)})
  IN  [k \in 1..Len(xs) |-> xs[CHOOSE i \in 1..Len(xs) : rank(i) = k - 1]]

\* .slice(0, k) for k >= 0
SliceTo(xs, k) == SubSeq(xs, 1, Min(k, Len(xs)))

TopScored(vecs, qVec, k) == SliceTo(SortByScore(WithScores(vecs, qVec)), k)

\* the gate, for a threshold min: scored.length === 0 || scored[0].score < min
GateRejectsAt(scored, min) == Len(scored) = 0 \/ ScoreLess(scored[1].score, min)

\* scored.length === 0 || (scored?.[0]?.score ?? 0) < MIN_OK_SCORE
GateRejects(scored) == GateRejectsAt(scored, MIN_OK_SCORE)

(* ------------------------ the index file -------------------------------- *)

Vec(id, source, chunk_index, embedding) ==
  [id |-> id, source |-> source, chunk_index |-> chunk_index, embedding |-> embedding]

\* an index file that parses: JSON with a vectors array
JsonFile(vectors) == [state |-> "json", vectors |-> vectors]

\* an index file that is absent, or holds text JSON.parse rejects (a write cut short)
NoFile(state) == [state |-> state, vectors |-> <<>>]

\* against <<1, 0>> the scores are 1 and 0.164; against <<0, 1>> they are 0 and 0.986
IndexA == << Vec(0, "a.pdf", 0, <<1, 0>>), Vec(1, "a.pdf", 1, <<1, 6>>) >>

\* against <<1, 0>> the score is 0.986; against <<0, 1>> it is 0.164
IndexB == << Vec(0, "b.pdf", 0, <<6, 1>>) >>

\* the vector lists an index file of the model may hold
IndexLists == {<<>>, IndexA, IndexB}

\* what a write to EMB_PATH may leave there
WrittenFiles == {NoFile("corrupt")} \cup {JsonFile(vs) : vs \in IndexLists}

\* what may be at EMB_PATH when the process starts
StartFiles == {NoFile("absent")} \cup WrittenFiles

\* a loadVectors that lacks the check of raw.vectors.length
loadVectorsAnyLength(f) == f.state = "json"

\* loadVectors returns (TRUE) or throws (FALSE)
loadVectorsOk(f) == f.state = "json" /\ Len(f.vectors) > 0

\* a reload that pushes the entries read onto the list in use
AdoptIndexInPlace(current, loaded) == current \o loaded

\* VECTORS = loadVectors(): the reference is replaced by the list read
AdoptIndex(current, loaded) == loaded

\* try { VECTORS = loadVectors() } catch { warn }
Reloaded(current, f) ==
  IF loadVectorsOk(f) THEN AdoptIndex(current, f.vectors) ELSE current

(* --------------------------- sessions ---------------------------------- *)

Sids == {"A", "B"}

NoSessions == [s \in {} |-> 0]

NewSession(now) == [history |-> <<>>, createdAt |-> now, lastSeen |-> now, hits |-> 1]

\* a middleware that sets lastSeen of every session, not of the one of the request
touchEverySession(ss, sid, now) ==
  [s \in DOMAIN ss \cup {sid} |->
     IF s \in DOMAIN ss THEN [ss[s] EXCEPT !.lastSeen = now] ELSE NewSession(now)]

\* sessionMiddleware: create the session if absent, else touch it; count the hit
sessionMiddleware(ss, sid, now) ==
  IF sid \in DOMAIN ss
    THEN [ss EXCEPT ![sid].lastSeen = now, ![sid].hits = @ + 1]
    ELSE [s \in DOMAIN ss \cup {sid} |-> IF s = sid THEN NewSession(now) ELSE ss[s]]

UserTurn(q) == [role |-> "user", text |-> q]

\* an assistant turn that does not hold the reply
AssistantTurnBlank(answer) ==
  [role |-> "assistant", answer |-> [kind |-> "none", mode |-> "", talk |-> "none", pick |-> 0]]

AssistantTurn(answer) == [role |-> "assistant", answer |-> answer]

\* a push that drops the turns before it
PushAlone(ss, sid, turn) == [ss EXCEPT ![sid].history = <<turn>>]

\* req.session.history.push(turn)
Push(ss, sid, turn) == [ss EXCEPT ![sid].history = Append(@, turn)]

(* --------------------------- requests ---------------------------------- *)

\* a reply text: its kind, its language mode, the small-talk kind and the candidate picked
Answer(kind, mode, talk, pick) == [kind |-> kind, mode |-> mode, talk |-> talk, pick |-> pick]

NoAnswer == Answer("none", "", "none", 0)

\* res.json({answer, mode, citations}) or res.status(s).json({error})
Reply(answer, citations) ==
  [status |-> 200, error |-> "", answer |-> answer, hasCitations |-> TRUE,
   citations |-> citations]

\* res.status(status).json({error}); "thrown" is the message of a caught exception
ErrorReply(status, error) ==
  [status |-> status, error |-> error, answer |-> NoAnswer, hasCitations |-> FALSE,
   citations |-> <<>>]

NoReply ==
  [status |-> 0, error |-> "", answer |-> NoAnswer, hasCitations |-> FALSE,
   citations |-> <<>>]

\* a request: where its handler stands (pc), its locals, and what it has done so far.
\* first is isFirstTurn: the history was empty (server.mjs), the flag of the body
\* was set (health.mjs).
\* checked is the list the handler tested with !VECTORS.length, searched the list
\* it mapped over; embedCalls and genCalls count the calls to the provider.
IdleReq ==
  [pc |-> "idle", sid |-> "", question |-> <<>>, q |-> <<>>, mode |-> "", route |-> "",
   qVec |-> <<>>, checked |-> <<>>, searched |-> <<>>, scored |-> <<>>,
   context |-> <<>>, embedCalls |-> 0, genCalls |-> 0, res |-> NoReply, first |-> FALSE]

\* scored.map((s, i) => ({ idx: i + 1, score: s.score }))
Citations(scored) == [i \in 1..Len(scored) |-> [idx |-> i, score |-> scored[i].score]]

(* ------------------- server.mjs: app.post("/api/ask") ------------------ *)

\* the number of ask requests of a run
MaxReqs == 1

Reqs == 1..MaxReqs

\* the question strings a request may carry
Questions ==
  { Chars(""), Chars("hi"), Chars("help me"), Chars("dst speed"), Chars("kya hai dst") }

\* the questions of the runs with the session endpoints: also one of white space only
SessionQuestions == Questions \cup {Chars(" ")}

\* the values the embedding provider may return; <<>> is a response without values
QueryVectors == { <<>>, <<1, 0>>, <<0, 1>> }

\* what the handler derives from the text of the question alone (lines 395-436),
\* computed once for each question of the model
Classify(q) ==
  [ q              |-> q,
    mode           |-> detectResponseMode(q),
    isBlank        |-> isBlankOf(q),
    isGreetingWord |-> isGreetingWordOf(q),
    quickKind      |-> quickKindOf(q),
    kind           |-> smallTalkMatch(q) ]

AskText ==
  [question \in SessionQuestions \cup {Chars("?!"), Chars("yo")} |-> Classify(trim(question))]

\* a handler whose pattern matches go on to retrieval
BranchPastPatterns(t, missing, isFirstTurn) ==
  [ q       |-> t.q,
    mode    |-> t.mode,
    route   |-> IF missing THEN "invalid" ELSE IF t.quickKind # "none" THEN "quick" ELSE "rag",
    talk    |-> t.quickKind,
    minimal |-> isFirstTurn /\ (t.isBlank \/ t.isGreetingWord) /\ FRONTEND_GREETS
                  /\ t.quickKind \in GREETING_KINDS ]

\* the handler up to its first await: which way it goes, and with what
Branch(t, missing, isFirstTurn) ==
  [ q       |-> t.q,
    mode    |-> t.mode,
    route   |-> IF missing THEN "invalid"
                ELSE IF t.quickKind # "none" THEN "quick"
                ELSE IF t.kind # "none" THEN "regex"
                ELSE "rag",
    talk    |-> IF t.quickKind # "none" THEN t.quickKind ELSE t.kind,
    minimal |-> /\ isFirstTurn /\ (t.isBlank \/ t.isGreetingWord)
                /\ FRONTEND_GREETS
                /\ (IF t.quickKind # "none" THEN t.quickKind ELSE t.kind) \in GREETING_KINDS ]

\* a handler without the check of the question
AskBranchUnchecked(ss, sid, question) ==
  Branch(AskText[question], FALSE, Len(ss[sid].history) = 0)

AskBranch(ss, sid, question) ==
  Branch(AskText[question], Len(question) = 0, Len(ss[sid].history) = 0)

Finish(req, res) == [req EXCEPT !.pc = "done", !.res = res]

\* the middleware and the handler, up to the response or to await embedContent
AskStart(r, sid, question, pick) ==
  /\ reqs[r].pc = "idle"
  /\ \A p \in 1..(r - 1) : reqs[p].pc # "idle"
  /\ LET now  == clock + 1
         ss   == sessionMiddleware(sessions, sid, now)
     IN  \E b \in {AskBranch(ss, sid, question)} :
         LET req  == [IdleReq EXCEPT !.sid = sid, !.question = question, !.q = b.q,
                                     !.mode = b.mode, !.route = b.route,
                                     !.first = (Len(ss[sid].history) = 0)]
             both(answer) == Push(Push(ss, sid, UserTurn(b.q)), sid, AssistantTurn(answer))
         IN
         /\ clock' = now
         /\ IF b.route = "invalid"
              THEN /\ pick = 1
                   /\ sessions' = ss
                   /\ reqs' = [reqs EXCEPT ![r] = Finish(req, ErrorReply(400, "Missing question"))]
            ELSE IF b.route \in {"quick", "regex"}
              THEN LET answer == IF b.minimal
                                   THEN Answer("minimal", b.mode, b.talk, 1)
                                   ELSE Answer("canned", b.mode, b.talk, pick)
                   IN  /\ pick \in 1..(IF b.minimal THEN 1 ELSE BankSize(b.talk))
                       /\ sessions' = both(answer)
                       /\ reqs' = [reqs EXCEPT ![r] = Finish(req, Reply(answer, <<>>))]
            ELSE IF Len(VECTORS) = 0
              THEN LET answer == Answer("notready", b.mode, "none", 1)
                   IN  /\ pick = 1
                       /\ sessions' = both(answer)
                       /\ reqs' = [reqs EXCEPT ![r] =
                                     Finish([req EXCEPT !.route = "notready"], Reply(answer, <<>>))]
            ELSE /\ pick = 1
                 /\ sessions' = ss
                 /\ reqs' = [reqs EXCEPT ![r] =
                               [req EXCEPT !.pc = "embedding", !.checked = VECTORS,
                                           !.embedCalls = 1]]
  /\ UNCHANGED <<file, watching, watchEvent, TOP_K, VECTORS, ct, bld, prn, fn>>

\* the list the retrieval maps over: the index current when the embedding returns
RetrievalIndex == VECTORS

\* embedContent returned values: retrieve, gate, compose, await generateContent
AskEmbedReturn(r, qVec) ==
  /\ reqs[r].pc = "embedding"
  /\ LET req0   == reqs[r]
         scored == TopScored(RetrievalIndex, qVec, TOP_K)
         tip    == Answer("tip", req0.mode, "none", 1)
         req    == [req0 EXCEPT !.qVec = qVec, !.searched = RetrievalIndex]
     IN  IF GateRejects(scored)
           THEN /\ sessions' = Push(Push(sessions, req.sid, UserTurn(req.q)),
                                    req.sid, AssistantTurn(tip))
                /\ reqs' = [reqs EXCEPT ![r] =
                              Finish([req EXCEPT !.scored = scored], Reply(tip, <<>>))]
           ELSE /\ sessions' = Push(sessions, req.sid, UserTurn(req.q))
                /\ reqs' = [reqs EXCEPT ![r] =
                              [req EXCEPT !.pc = "generating", !.scored = scored,
                                          !.context = scored, !.genCalls = 1]]
  /\ UNCHANGED <<file, watching, watchEvent, TOP_K, VECTORS, clock, ct, bld, prn, fn>>

\* a handler that calls embedContent again when it threw
AskEmbedRetry(r) ==
  /\ reqs[r].pc = "embedding"
  /\ reqs[r].embedCalls < 2
  /\ reqs' = [reqs EXCEPT ![r].embedCalls = @ + 1]
  /\ UNCHANGED <<file, watching, watchEvent, TOP_K, VECTORS, sessions, clock, ct, bld, prn, fn>>

\* embedContent threw: the catch block answers with the error
AskEmbedFail(r) ==
  /\ reqs[r].pc = "embedding"
  /\ reqs' = [reqs EXCEPT ![r] = Finish(@, ErrorReply(500, "thrown"))]
  /\ UNCHANGED <<file, watching, watchEvent, TOP_K, VECTORS, sessions, clock, ct, bld, prn, fn>>

\* generateContent returned text: record the assistant turn and answer
AskGenerateReturn(r) ==
  /\ reqs[r].pc = "generating"
  /\ LET req    == reqs[r]
         answer == Answer("generated", req.mode, "none", 1)
     IN  /\ sessions' = Push(sessions, req.sid, AssistantTurn(answer))
         /\ reqs' = [reqs EXCEPT ![r] = Finish(req, Reply(answer, Citations(req.scored)))]
  /\ UNCHANGED <<file, watching, watchEvent, TOP_K, VECTORS, clock, ct, bld, prn, fn>>

\* generateContent (or result.response.text()) threw: the catch block answers
AskGenerateFail(r) ==
  /\ reqs[r].pc = "generating"
  /\ reqs' = [reqs EXCEPT ![r] = Finish(@, ErrorReply(500, "thrown"))]
  /\ UNCHANGED <<file, watching, watchEvent, TOP_K, VECTORS, sessions, clock, ct, bld, prn, fn>>

(* ------------------- server.mjs: the index and its watcher -------------- *)

\* embed.mjs or prune-index.mjs (or anything else) writes EMB_PATH
WriteIndex(f) ==
  /\ file' = f
  /\ watchEvent' = watching
  /\ UNCHANGED <<watching, TOP_K, VECTORS, sessions, clock, reqs, ct, bld, prn, fn>>

\* the fs.watch callback
ReloadCallback ==
  /\ watchEvent
  /\ watchEvent' = FALSE
  /\ VECTORS' = Reloaded(VECTORS, file)
  /\ UNCHANGED <<file, watching, TOP_K, sessions, clock, reqs, ct, bld, prn, fn>>

\* the largest TOP_K of the model (the default of the source is 6)
MaxTopK == 2

\* the variables of the scripts, while a server is modelled
NoChunking == [pc |-> "off"]

NoBuild == [pc |-> "off"]

NoPrune == [pc |-> "off"]

NoCall == [pc |-> "off"]

\* module load: VECTORS = loadVectors() in try/catch, then fs.watch in try/catch
Init ==
  /\ file \in StartFiles
  /\ watching = (file.state # "absent")
  /\ watchEvent = FALSE
  /\ TOP_K \in 1..MaxTopK
  /\ VECTORS = Reloaded(<<>>, file)
  /\ sessions = NoSessions
  /\ clock = 0
  /\ reqs = [r \in Reqs |-> IdleReq]
  /\ ct = NoChunking
  /\ bld = NoBuild
  /\ prn = NoPrune
  /\ fn = NoCall

Next ==
  \/ \E r \in Reqs, sid \in Sids, question \in Questions, pick \in 1..2 :
       AskStart(r, sid, question, pick)
  \/ \E r \in Reqs, qVec \in QueryVectors : AskEmbedReturn(r, qVec)
  \/ \E r \in Reqs : AskEmbedFail(r)
  \/ \E r \in Reqs : AskGenerateReturn(r)
  \/ \E r \in Reqs : AskGenerateFail(r)
  \/ \E f \in WrittenFiles : WriteIndex(f)
  \/ ReloadCallback

Spec == Init /\ [][Next]_vars

(* ------------------- server.mjs: the session endpoints ------------------ *)

\* the largest clock at which a session endpoint is still called
MaxClock == 2

\* a session endpoint answered: which, for which session, when, and with what
EndpointCall(pc, sid, now, arg, res) ==
  [pc |-> pc, sid |-> sid, at |-> now, arg |-> arg, res |-> res]

\* a reset that leaves the history alone
KeepHistory(ss, sid) == ss

\* req.session.history = []
ClearHistory(ss, sid) == [ss EXCEPT ![sid].history = <<>>]

\* app.post("/api/reset", sessionMiddleware, ...)
Reset(sid) ==
  /\ clock < MaxClock
  /\ LET now == clock + 1
     IN  /\ clock' = now
         /\ sessions' = ClearHistory(sessionMiddleware(sessions, sid, now), sid)
         /\ fn' = EndpointCall("reset", sid, now, 0, [sessionId |-> sid, cleared |-> TRUE])
  /\ UNCHANGED <<file, watching, watchEvent, TOP_K, VECTORS, reqs, ct, bld, prn>>

\* app.get("/api/session", sessionMiddleware, ...)
SessionRead(sid) ==
  /\ clock < MaxClock
  /\ LET now == clock + 1
         ss  == sessionMiddleware(sessions, sid, now)
     IN  /\ clock' = now
         /\ sessions' = ss
         /\ fn' = EndpointCall("session", sid, now, 0,
                     [sessionId |-> sid, historyLength |-> Len(ss[sid].history),
                      createdAt |-> ss[sid].createdAt, lastSeen |-> ss[sid].lastSeen,
                      hits |-> ss[sid].hits])
  /\ UNCHANGED <<file, watching, watchEvent, TOP_K, VECTORS, reqs, ct, bld, prn>>

\* parseInt(req.query.n || "20", 10) for n = "0", "1", absent (20) and "150"
HistoryCounts == {0, 1, 20, 150}

\* Math.max(0, Math.min(100, raw))
ClampCount(raw) == IF raw > 100 THEN 100 ELSE IF raw < 0 THEN 0 ELSE raw

\* history.slice(-n): the last n turns, and the whole history for n = 0
LastTurns(history, n) ==
  IF n = 0 \/ n >= Len(history) THEN history
  ELSE SubSeq(history, Len(history) - n + 1, Len(history))

\* app.get("/api/history", sessionMiddleware, ...)
HistoryRead(sid, n) ==
  /\ clock < MaxClock
  /\ LET now == clock + 1
         ss  == sessionMiddleware(sessions, sid, now)
     IN  /\ clock' = now
         /\ sessions' = ss
         /\ fn' = EndpointCall("history", sid, now, n,
                     [sessionId |-> sid, items |-> LastTurns(ss[sid].history, ClampCount(n))])
  /\ UNCHANGED <<file, watching, watchEvent, TOP_K, VECTORS, reqs, ct, bld, prn>>

\* the server with its session endpoints, the index file left alone
SessionsNext ==
  \/ \E r \in Reqs, sid \in Sids, question \in SessionQuestions, pick \in 1..2 :
       AskStart(r, sid, question, pick)
  \/ \E r \in Reqs, qVec \in QueryVectors : AskEmbedReturn(r, qVec)
  \/ \E r \in Reqs : AskEmbedFail(r)
  \/ \E r \in Reqs : AskGenerateReturn(r)
  \/ \E r \in Reqs : AskGenerateFail(r)
  \/ \E sid \in Sids : Reset(sid)
  \/ \E sid \in Sids : SessionRead(sid)
  \/ \E sid \in Sids, n \in HistoryCounts : HistoryRead(sid, n)

\* the server started without an index, or with a loaded one
SessionsInit ==
  /\ Init
  /\ file \in {NoFile("absent"), JsonFile(IndexA)}
  /\ TOP_K = MaxTopK

SpecSessions == SessionsInit /\ [][SessionsNext]_vars

(* ------------- api/ask.js, the serverless port (health.mjs) ------------ *)
(* Its detectResponseMode, smallTalkMatch, short-token sets, cosineSim and  *)
(* loadVectors are copies of those of server.mjs; it keeps no sessions and  *)
(* loads the index once, at cold start.                                     *)

NoMatch == [matched |-> FALSE, kind |-> "none", talk |-> "none", picks |-> 1]

Matched(kind, talk) ==
  [matched |-> TRUE, kind |-> kind, talk |-> talk,
   picks |-> IF kind = "canned" THEN BankSize(talk) ELSE 1]

\* handleSmallTalkAll(q, {isFirstTurn}); t is what the text of q classifies as
handleSmallTalkAll(t, isFirstTurn) ==
      IF Len(t.q) = 0 THEN NoMatch
      ELSE IF t.quickKind # "none"
        THEN IF isFirstTurn /\ FRONTEND_GREETS /\ t.quickKind \in GREETING_KINDS
               THEN Matched("minimal", t.quickKind)
               ELSE Matched("canned", t.quickKind)
      ELSE IF t.kind # "none"
        THEN IF isFirstTurn /\ FRONTEND_GREETS /\ t.kind \in GREETING_KINDS
               THEN Matched("minimal", t.kind)
             ELSE IF t.kind \in {"morning", "afternoon", "evening"}
               THEN Matched("timeofday", t.kind)
               ELSE Matched("canned", t.kind)
      ELSE IF isFirstTurn /\ FRONTEND_GREETS /\ (t.isBlank \/ t.isGreetingWord)
        THEN Matched("minimal", "none")
      ELSE NoMatch

\* the handler up to the response or to await embedContent
SlsStart(r, question, isFirstTurn, pick) ==
  /\ reqs[r].pc = "idle"
  /\ \A p \in 1..(r - 1) : reqs[p].pc # "idle"
  /\ \E t \in {AskText[question]} :
     \E st \in {handleSmallTalkAll(t, isFirstTurn)} :
     LET req == [IdleReq EXCEPT !.question = question, !.q = t.q, !.mode = t.mode,
                                !.first = isFirstTurn]
     IN  /\ pick \in 1..st.picks
         /\ reqs' = [reqs EXCEPT ![r] =
              IF Len(t.q) = 0 /\ ~isFirstTurn
                THEN Finish([req EXCEPT !.route = "invalid"], ErrorReply(400, "Missing question"))
              ELSE IF st.matched
                THEN Finish([req EXCEPT !.route = "smalltalk"],
                            Reply(Answer(st.kind, t.mode, st.talk, pick), <<>>))
              ELSE IF Len(VECTORS) = 0
                THEN Finish([req EXCEPT !.route = "notready"],
                            ErrorReply(500, "Embeddings not loaded"))
              ELSE [req EXCEPT !.route = "rag", !.pc = "embedding", !.embedCalls = 1]]
  /\ UNCHANGED <<file, watching, watchEvent, TOP_K, VECTORS, sessions, clock, ct, bld, prn, fn>>

\* embedContent returned: "Embedding failed" without values, else retrieve and gate
SlsEmbedReturn(r, qVec) ==
  /\ reqs[r].pc = "embedding"
  /\ LET req == [reqs[r] EXCEPT !.qVec = qVec]
         top == TopScored(VECTORS, qVec, TOP_K)
         got == [req EXCEPT !.searched = VECTORS, !.scored = top]
     IN  reqs' = [reqs EXCEPT ![r] =
           IF Len(qVec) = 0 THEN Finish(req, ErrorReply(500, "Embedding failed"))
           ELSE IF GateRejects(top)
             THEN Finish(got, Reply(Answer("tip", req.mode, "none", 1), <<>>))
           ELSE [got EXCEPT !.pc = "generating", !.context = top, !.genCalls = 1]]
  /\ UNCHANGED <<file, watching, watchEvent, TOP_K, VECTORS, sessions, clock, ct, bld, prn, fn>>

SlsEmbedFail(r) ==
  /\ reqs[r].pc = "embedding"
  /\ reqs' = [reqs EXCEPT ![r] = Finish(@, ErrorReply(500, "thrown"))]
  /\ UNCHANGED <<file, watching, watchEvent, TOP_K, VECTORS, sessions, clock, ct, bld, prn, fn>>

\* generateContent returned (an empty text is replaced by the contact line)
SlsGenerateReturn(r) ==
  /\ reqs[r].pc = "generating"
  /\ reqs' = [reqs EXCEPT ![r] =
       Finish(@, Reply(Answer("generated", @.mode, "none", 1), Citations(@.scored)))]
  /\ UNCHANGED <<file, watching, watchEvent, TOP_K, VECTORS, sessions, clock, ct, bld, prn, fn>>

SlsGenerateFail(r) ==
  /\ reqs[r].pc = "generating"
  /\ reqs' = [reqs EXCEPT ![r] = Finish(@, ErrorReply(500, "thrown"))]
  /\ UNCHANGED <<file, watching, watchEvent, TOP_K, VECTORS, sessions, clock, ct, bld, prn, fn>>

\* the questions of the serverless runs: also one of punctuation only, and a short
\* greeting that the greeting-word pattern does not know
SlsQuestions == Questions \cup {Chars("?!"), Chars("yo")}

\* cold start: VECTORS = loadVectors() in try/catch; nothing watches the file
ColdStart ==
  /\ file \in StartFiles
  /\ watching = FALSE
  /\ watchEvent = FALSE
  /\ TOP_K \in 1..MaxTopK
  /\ VECTORS = Reloaded(<<>>, file)
  /\ sessions = NoSessions
  /\ clock = 0
  /\ reqs = [r \in Reqs |-> IdleReq]
  /\ ct = NoChunking
  /\ bld = NoBuild
  /\ prn = NoPrune
  /\ fn = NoCall

SlsNext ==
  \/ \E r \in Reqs, question \in SlsQuestions, isFirstTurn \in BOOLEAN, pick \in 1..2 :
       SlsStart(r, question, isFirstTurn, pick)
  \/ \E r \in Reqs, qVec \in QueryVectors : SlsEmbedReturn(r, qVec)
  \/ \E r \in Reqs : SlsEmbedFail(r)
  \/ \E r \in Reqs : SlsGenerateReturn(r)
  \/ \E r \in Reqs : SlsGenerateFail(r)

SpecServerless == ColdStart /\ [][SlsNext]_vars

(* ------------- the legacy serverless ask (unnamed/part_000) ------------- *)

\* /^(hi|hello|hey|namaste)\b/i
legacyGreetAlts == { Lit("hi"), Lit("hello"), Lit("hey"), Lit("namaste") }

\* what the legacy handler derives from the text of the question alone
LegacyClassify(q) ==
  [ q     |-> q,
    mode  |-> detectResponseModeWith(q, legacyTokens),
    greet |-> TestPrefix(q, legacyGreetAlts) ]

LegacyText == [question \in Questions |-> LegacyClassify(trim(question))]

\* the handler up to the response or to await embedContent
LegacyStart(r, question) ==
  /\ reqs[r].pc = "idle"
  /\ \A p \in 1..(r - 1) : reqs[p].pc # "idle"
  /\ \E t \in {LegacyText[question]} :
     LET req == [IdleReq EXCEPT !.question = question, !.q = t.q, !.mode = t.mode]
     IN  reqs' = [reqs EXCEPT ![r] =
           IF Len(t.q) = 0
             THEN Finish([req EXCEPT !.route = "invalid"], ErrorReply(400, "Missing question"))
           ELSE IF t.greet
             THEN Finish([req EXCEPT !.route = "smalltalk"],
                         Reply(Answer("canned", t.mode, "hello", 1), <<>>))
           ELSE IF Len(VECTORS) = 0
             THEN Finish([req EXCEPT !.route = "notready"],
                            ErrorReply(500, "Embeddings not loaded"))
           ELSE [req EXCEPT !.route = "rag", !.pc = "embedding", !.embedCalls = 1]]
  /\ UNCHANGED <<file, watching, watchEvent, TOP_K, VECTORS, sessions, clock, ct, bld, prn, fn>>

\* embedContent returned: "Embedding failed" without values, else retrieve and generate
LegacyEmbedReturn(r, qVec) ==
  /\ reqs[r].pc = "embedding"
  /\ LET req == [reqs[r] EXCEPT !.qVec = qVec]
         top == TopScored(VECTORS, qVec, TOP_K)
     IN  reqs' = [reqs EXCEPT ![r] =
           IF Len(qVec) = 0 THEN Finish(req, ErrorReply(500, "Embedding failed"))
           ELSE [req EXCEPT !.pc = "generating", !.searched = VECTORS, !.scored = top,
                            !.context = top, !.genCalls = 1]]
  /\ UNCHANGED <<file, watching, watchEvent, TOP_K, VECTORS, sessions, clock, ct, bld, prn, fn>>

LegacyEmbedFail(r) ==
  /\ reqs[r].pc = "embedding"
  /\ reqs' = [reqs EXCEPT ![r] = Finish(@, ErrorReply(500, "thrown"))]
  /\ UNCHANGED <<file, watching, watchEvent, TOP_K, VECTORS, sessions, clock, ct, bld, prn, fn>>

LegacyGenerateReturn(r) ==
  /\ reqs[r].pc = "generating"
  /\ reqs' = [reqs EXCEPT ![r] =
       Finish(@, Reply(Answer("generated", @.mode, "none", 1), Citations(@.scored)))]
  /\ UNCHANGED <<file, watching, watchEvent, TOP_K, VECTORS, sessions, clock, ct, bld, prn, fn>>

LegacyGenerateFail(r) ==
  /\ reqs[r].pc = "generating"
  /\ reqs' = [reqs EXCEPT ![r] = Finish(@, ErrorReply(500, "thrown"))]
  /\ UNCHANGED <<file, watching, watchEvent, TOP_K, VECTORS, sessions, clock, ct, bld, prn, fn>>

LegacyNext ==
  \/ \E r \in Reqs, question \in Questions : LegacyStart(r, question)
  \/ \E r \in Reqs, qVec \in QueryVectors : LegacyEmbedReturn(r, qVec)
  \/ \E r \in Reqs : LegacyEmbedFail(r)
  \/ \E r \in Reqs : LegacyGenerateReturn(r)
  \/ \E r \in Reqs : LegacyGenerateFail(r)

SpecLegacy == ColdStart /\ [][LegacyNext]_vars

(* ------------------- scripts/embed.mjs: chunkText ----------------------- *)

\* the longest text of the model, its largest chunk size and largest overlap
MaxLen == 4

MaxSize == 3

\* the iterations after which the model stops following a loop that never ends
MaxWindows == 6

Max(a, b) == IF a >= b THEN a ELSE b

\* text.slice(start, end), for 0 <= start <= end <= text.length
slice(text, start, end) == SubSeq(text, start + 1, end)

\* a window that ends where it starts
WindowEndAtStart(start, size, len) == start

\* const end = Math.min(start + size, text.length)
WindowEnd(start, size, len) == Min(start + size, len)

\* a loop that starts the next window where the last one ended
NextStartNoOverlap(end, overlap) == end

\* start = Math.max(0, end - overlap)
NextStart(end, overlap) == Max(0, end - overlap)

\* a loop without its break
NeverBreaks(end, len) == FALSE

\* if (end === text.length) break
LoopBreaks(end, len) == end = len

RECURSIVE TextsOfLen(_)
TextsOfLen(n) ==
  IF n = 0 THEN {<<>>}
  ELSE {Append(t, c) : t \in TextsOfLen(n - 1), c \in {"a", " "}}

\* a call chunkText(text, size, overlap), before its first statement
ChunkCall(text, size, overlap) ==
  [pc |-> "loop", text |-> text, size |-> size, overlap |-> overlap,
   start |-> 0, chunks |-> <<>>, windows |-> <<>>]

\* the 26-character document without whitespace, chunked with size 10, overlap 2
ScenarioCall == ChunkCall(Chars("abcdefghijklmnopqrstuvwxyz"), 10, 2)

\* the calls of the model: every short text, with overlaps below, at and above the size
ChunkCalls ==
  {ScenarioCall} \cup
  {ChunkCall(text, size, overlap) :
     text \in UNION {TextsOfLen(n) : n \in 0..MaxLen},
     size \in 1..MaxSize, overlap \in 0..MaxSize}

\* one iteration of the while loop; windows records the [start, end) it sliced
ChunkIterate ==
  /\ ct.pc = "loop"
  /\ ct.start < Len(ct.text)
  /\ Len(ct.windows) < MaxWindows
  /\ LET end   == WindowEnd(ct.start, ct.size, Len(ct.text))
         chunk == trim(slice(ct.text, ct.start, end))
         seen  == [ct EXCEPT !.windows = Append(@, [start |-> ct.start, end |-> end]),
                             !.chunks = IF Len(chunk) > 0 THEN Append(@, chunk) ELSE @]
     IN  ct' = IF LoopBreaks(end, Len(ct.text))
                 THEN [seen EXCEPT !.pc = "done"]
                 ELSE [seen EXCEPT !.start = NextStart(end, ct.overlap)]
  /\ UNCHANGED <<file, watching, watchEvent, TOP_K, VECTORS, sessions, clock, reqs, bld, prn, fn>>

\* the loop condition fails: return chunks
ChunkReturn ==
  /\ ct.pc = "loop"
  /\ ct.start >= Len(ct.text)
  /\ ct' = [ct EXCEPT !.pc = "done"]
  /\ UNCHANGED <<file, watching, watchEvent, TOP_K, VECTORS, sessions, clock, reqs, bld, prn, fn>>

\* no server runs while a script is modelled
ServerOff ==
  /\ file = NoFile("absent")
  /\ watching = FALSE
  /\ watchEvent = FALSE
  /\ TOP_K = 1
  /\ VECTORS = <<>>
  /\ sessions = NoSessions
  /\ clock = 0
  /\ reqs = [r \in Reqs |-> IdleReq]

ChunkInit ==
  /\ ServerOff
  /\ ct \in ChunkCalls
  /\ bld = NoBuild
  /\ prn = NoPrune
  /\ fn = NoCall

ChunkNext == ChunkIterate \/ ChunkReturn

SpecChunk == ChunkInit /\ [][ChunkNext]_vars

\* chunkText is synchronous code: once called, it runs on while it has a next step
SpecChunkLive == SpecChunk /\ WF_vars(ChunkNext)

(* ------------------- scripts/embed.mjs: main ---------------------------- *)

\* const batchSize = 64
batchSize == 64

\* the largest number of chunks of a build: two batches, the second of two chunks
MaxChunks == 66

\* what a build or a prune writes: the vectors, and meta.sources when there is a meta
Payload(vectors, hasMeta, sources) ==
  [state |-> "json", vectors |-> vectors, hasMeta |-> hasMeta, sources |-> sources]

\* allChunks, for one source that chunkText cut into n chunks
AllChunksOf(n) == [k \in 1..n |-> [source |-> "doc.pdf", chunk_index |-> k - 1]]

\* main, after chunking: n chunks to embed, none embedded yet
BuildCall(n) ==
  [pc |-> "batches", allChunks |-> AllChunksOf(n), i |-> 0, vectors |-> <<>>, error |-> ""]

\* the lengths res.embeddings may have for a batch of b requests
ReturnedCounts(b) == {0, b - 1, b, b + 1} \cap Nat

\* one iteration of the batch loop: batchEmbedContents returned n embeddings.
\* With more embeddings than requests batch[j] is undefined and main rejects.
BuildBatch(n) ==
  /\ bld.pc = "batches"
  /\ bld.i < Len(bld.allChunks)
  /\ LET i     == bld.i
         batch == SubSeq(bld.allChunks, i + 1, Min(i + batchSize, Len(bld.allChunks)))
         pushed == [j \in 1..n |->
                     Vec(i + (j - 1), batch[j].source, batch[j].chunk_index, <<1, 0>>)]
     IN  /\ n \in ReturnedCounts(Len(batch))
         /\ bld' = IF n > Len(batch)
                     THEN [bld EXCEPT !.pc = "failed", !.error = "TypeError"]
                     ELSE [bld EXCEPT !.vectors = @ \o pushed, !.i = i + batchSize]
  /\ UNCHANGED <<file, watching, watchEvent, TOP_K, VECTORS, sessions, clock, reqs, ct, prn, fn>>

\* batchEmbedContents threw: main rejects, nothing is written
BuildBatchFail ==
  /\ bld.pc = "batches"
  /\ bld.i < Len(bld.allChunks)
  /\ bld' = [bld EXCEPT !.pc = "failed", !.error = "thrown"]
  /\ UNCHANGED <<file, watching, watchEvent, TOP_K, VECTORS, sessions, clock, reqs, ct, prn, fn>>

\* the loop is over: fs.writeFileSync(OUT_PATH, JSON.stringify(payload))
BuildSave ==
  /\ bld.pc = "batches"
  /\ bld.i >= Len(bld.allChunks)
  /\ file' = Payload(bld.vectors, TRUE, <<"doc.pdf">>)
  /\ bld' = [bld EXCEPT !.pc = "done"]
  /\ UNCHANGED <<watching, watchEvent, TOP_K, VECTORS, sessions, clock, reqs, ct, prn, fn>>

BuildInit ==
  /\ ServerOff
  /\ ct = NoChunking
  /\ bld \in {BuildCall(n) : n \in 0..MaxChunks}
  /\ prn = NoPrune
  /\ fn = NoCall

BuildNext == (\E n \in 0..(batchSize + 1) : BuildBatch(n)) \/ BuildBatchFail \/ BuildSave

SpecBuild == BuildInit /\ [][BuildNext]_vars

(* ------------------- scripts/prune-index.mjs ---------------------------- *)

\* the longest index a prune of the model starts from
MaxVecs == 3

\* the source names the vectors of the model carry
SourceNames == {Chars("a.pdf"), Chars("A.pdf"), Chars("b.pdf")}

\* the names SOURCES_TO_REMOVE may list
RemoveNames == {Chars("a.pdf"), Chars(" b.pdf"), Chars("c.pdf")}

RECURSIVE SeqsOfLen(_, _)
SeqsOfLen(S, n) ==
  IF n = 0 THEN {<<>>} ELSE {Append(q, x) : q \in SeqsOfLen(S, n - 1), x \in S}

\* an index as a build leaves it: ids 0..n-1 in order
DenseIndex(srcs) == [k \in 1..Len(srcs) |-> Vec(k - 1, srcs[k], k - 1, <<1, 0>>)]

\* meta.sources of a build: the names of the sources, each once, in order
RECURSIVE SourcesOf(_)
SourcesOf(srcs) ==
  IF srcs = <<>> THEN <<>>
  ELSE LET rest == SourcesOf(SubSeq(srcs, 1, Len(srcs) - 1))
           last == srcs[Len(srcs)]
       IN  IF \E i \in 1..Len(rest) : rest[i] = last THEN rest ELSE Append(rest, last)

\* what may be at INDEX_IN when the script starts
PruneFiles ==
  {NoFile("absent"), NoFile("corrupt")} \cup
  {Payload(DenseIndex(srcs), hasMeta, IF hasMeta THEN SourcesOf(srcs) ELSE <<>>) :
     srcs \in UNION {SeqsOfLen(SourceNames, n) : n \in 0..MaxVecs},
     hasMeta \in BOOLEAN}

\* a remove set that keeps the names as they are written
removeSetAsWritten(names) == names

\* new Set(SOURCES_TO_REMOVE.map(s => s.trim().toLowerCase()))
removeSetOf(names) == {toLowerCase(trim(s)) : s \in names}

\* removeSet.has(String(v.source).toLowerCase())
removeSetHas(removeSet, source) == toLowerCase(source) \in removeSet

\* kept.forEach((v, i) => { v.id = i })
Renumber(kept) == [i \in 1..Len(kept) |-> [kept[i] EXCEPT !.id = i - 1]]

\* a run of the script with SOURCES_TO_REMOVE = names, before its first statement
PruneCall(names) ==
  [pc |-> "start", names |-> names, orig |-> NoFile("absent"),
   backup |-> NoFile("absent"), raw |-> NoFile("absent")]

\* if (!fs.existsSync(INDEX_IN)) process.exit(1)
PruneMissing ==
  /\ prn.pc = "start"
  /\ file.state = "absent"
  /\ prn' = [prn EXCEPT !.pc = "exit1"]
  /\ UNCHANGED <<file, watching, watchEvent, TOP_K, VECTORS, sessions, clock, reqs, ct, bld, fn>>

\* fs.copyFileSync(INDEX_IN, backupPath)
PruneBackup ==
  /\ prn.pc = "start"
  /\ file.state # "absent"
  /\ prn' = [prn EXCEPT !.pc = "load", !.orig = file, !.backup = file]
  /\ UNCHANGED <<file, watching, watchEvent, TOP_K, VECTORS, sessions, clock, reqs, ct, bld, fn>>

\* JSON.parse throws on a file that does not parse: the script dies after the backup
PruneLoadFail ==
  /\ prn.pc = "load"
  /\ file.state # "json"
  /\ prn' = [prn EXCEPT !.pc = "crashed"]
  /\ UNCHANGED <<file, watching, watchEvent, TOP_K, VECTORS, sessions, clock, reqs, ct, bld, fn>>

\* load, filter the vectors, renumber them, filter meta.sources
PruneFilter ==
  /\ prn.pc = "load"
  /\ file.state = "json"
  /\ LET removeSet == removeSetOf(prn.names)
         kept      == SelectSeq(file.vectors, LAMBDA v : ~removeSetHas(removeSet, v.source))
         sources   == IF file.hasMeta
                        THEN SelectSeq(file.sources, LAMBDA n : ~removeSetHas(removeSet, n))
                        ELSE file.sources
     IN  prn' = [prn EXCEPT !.pc = "save",
                            !.raw = Payload(Renumber(kept), file.hasMeta, sources)]
  /\ UNCHANGED <<file, watching, watchEvent, TOP_K, VECTORS, sessions, clock, reqs, ct, bld, fn>>

\* fs.writeFileSync(INDEX_OUT, JSON.stringify(raw))
PruneSave ==
  /\ prn.pc = "save"
  /\ file' = prn.raw
  /\ prn' = [prn EXCEPT !.pc = "done"]
  /\ UNCHANGED <<watching, watchEvent, TOP_K, VECTORS, sessions, clock, reqs, ct, bld, fn>>

PruneInit ==
  /\ file \in PruneFiles
  /\ watching = FALSE
  /\ watchEvent = FALSE
  /\ TOP_K = 1
  /\ VECTORS = <<>>
  /\ sessions = NoSessions
  /\ clock = 0
  /\ reqs = [r \in Reqs |-> IdleReq]
  /\ ct = NoChunking
  /\ bld = NoBuild
  /\ prn \in {PruneCall(names) : names \in SUBSET RemoveNames}
  /\ fn = NoCall

PruneNext == PruneMissing \/ PruneBackup \/ PruneLoadFail \/ PruneFilter \/ PruneSave

SpecPrune == PruneInit /\ [][PruneNext]_vars

(* ------------------- server.mjs: the retrieval alone -------------------- *)

\* the longest store of a retrieval taken alone
MaxStore == 3

\* the embeddings the vectors of such a store carry
StoreEmbeddings == {<<1, 0>>, <<0, 1>>, <<1, 6>>, <<6, 1>>}

\* a store: the vectors in file order, ids 0..n-1
StoreOf(embs) == [k \in 1..Len(embs) |-> Vec(k - 1, "a.pdf", k - 1, embs[k])]

\* a store that scores 0.5, 0.3 and 0.1 against ScenarioQuery
ScenarioStore == StoreOf(<< <<1, 1, 1, 1>>, <<3, 9, 3, 1>>, <<1, 9, 3, 3>> >>)

ScenarioQuery == <<1, 0, 0, 0>>

\* a threshold of 0.6, as 6 / sqrt(100)
StrictThreshold == [num |-> 6, sq |-> 100]

\* retrieval of the top k of store against qVec, gated at min; nothing done yet
SearchCall(store, qVec, k, min) ==
  [pc |-> "call", store |-> store, qVec |-> qVec, k |-> k, min |-> min,
   scored |-> <<>>, outcome |-> ""]

SearchCalls ==
  {SearchCall(ScenarioStore, ScenarioQuery, k, min) :
     k \in 0..MaxTopK, min \in {MIN_OK_SCORE, StrictThreshold}} \cup
  {SearchCall(StoreOf(embs), qVec, k, min) :
     embs \in UNION {SeqsOfLen(StoreEmbeddings, n) : n \in 0..MaxStore},
     qVec \in QueryVectors, k \in 0..MaxTopK, min \in {MIN_OK_SCORE, StrictThreshold}}

\* const scored = VECTORS.map(...).sort(...).slice(0, TOP_K)
SearchRank ==
  /\ fn.pc = "call"
  /\ fn' = [fn EXCEPT !.pc = "ranked", !.scored = TopScored(fn.store, fn.qVec, fn.k)]
  /\ UNCHANGED <<file, watching, watchEvent, TOP_K, VECTORS, sessions, clock, reqs, ct, bld, prn>>

\* the gate: the no-context outcome, or the context blocks of scored
SearchGate ==
  /\ fn.pc = "ranked"
  /\ fn' = [fn EXCEPT !.pc = "done",
                      !.outcome = IF GateRejectsAt(fn.scored, fn.min)
                                    THEN "no-context" ELSE "context"]
  /\ UNCHANGED <<file, watching, watchEvent, TOP_K, VECTORS, sessions, clock, reqs, ct, bld, prn>>

SearchInit ==
  /\ ServerOff
  /\ ct = NoChunking
  /\ bld = NoBuild
  /\ prn = NoPrune
  /\ fn \in SearchCalls

SearchNext == SearchRank \/ SearchGate

SpecSearch == SearchInit /\ [][SearchNext]_vars

(* ------------------- server.mjs: the small-talk intent alone ------------ *)

\* the longest text spelled from TalkLetters
MaxTalkLen == 3

TalkLetters == {"h", "i", "g", "m", "!", " "}

TalkPhrases ==
  { Chars("sup"), Chars("tx"), Chars("gn"), Chars("Ga"), Chars("ge"), Chars("b.b"),
    Chars("HEY"), Chars("yo"), Chars("ciao"), Chars("thx"), Chars("gmail"),
    Chars("hi help"), Chars("ok thanks"), Chars("thanks for help"), Chars("help me"),
    Chars("please help"), Chars("good morning"), Chars("see you"), Chars("dst speed"),
    Chars("kya hai dst") }

\* const q = question.trim()
TalkTexts ==
  {trim(t) : t \in TalkPhrases \cup UNION {SeqsOfLen(TalkLetters, n) : n \in 0..MaxTalkLen}}

\* the intent of q: nothing computed yet
TalkCall(q) == [pc |-> "short", q |-> q, consulted |-> <<>>, intent |-> ""]

\* short, quickKind and if (quickKind): the intent, or on to smallTalkMatch(q)
TalkShort ==
  /\ fn.pc = "short"
  /\ \E quickKind \in {quickKindOf(fn.q)} :
       fn' = IF quickKind # "none"
               THEN [fn EXCEPT !.pc = "done", !.intent = quickKind]
               ELSE [fn EXCEPT !.pc = "patterns"]
  /\ UNCHANGED <<file, watching, watchEvent, TOP_K, VECTORS, sessions, clock, reqs, ct, bld, prn>>

\* one turn of for (const p of patterns) if (p.re.test(t)) return p.kind
TalkPattern ==
  /\ fn.pc = "patterns"
  /\ Len(fn.consulted) < Len(patterns)
  /\ LET i == Len(fn.consulted) + 1
     IN  fn' = IF PatternTest(patterns[i], trim(fn.q))
                 THEN [fn EXCEPT !.pc = "done", !.consulted = Append(@, i),
                                 !.intent = patterns[i].kind]
                 ELSE [fn EXCEPT !.consulted = Append(@, i)]
  /\ UNCHANGED <<file, watching, watchEvent, TOP_K, VECTORS, sessions, clock, reqs, ct, bld, prn>>

\* return null
TalkNone ==
  /\ fn.pc = "patterns"
  /\ Len(fn.consulted) = Len(patterns)
  /\ fn' = [fn EXCEPT !.pc = "done", !.intent = "none"]
  /\ UNCHANGED <<file, watching, watchEvent, TOP_K, VECTORS, sessions, clock, reqs, ct, bld, prn>>

TalkInit ==
  /\ ServerOff
  /\ ct = NoChunking
  /\ bld = NoBuild
  /\ prn = NoPrune
  /\ fn \in {TalkCall(q) : q \in TalkTexts}

TalkNext == TalkShort \/ TalkPattern \/ TalkNone

SpecTalk == TalkInit /\ [][TalkNext]_vars

(* ------------------- server.mjs: detectResponseMode alone --------------- *)

\* the most words of a text put together from ModeWords
MaxWords == 3

ModeWords == {"kya", "hai", "KYA", "ka", "dst", "hai?", "!!", "...", "@"}

\* the words joined by single spaces
JoinWords(ws) ==
  IF Len(ws) = 0 THEN <<>>
  ELSE LET F[n \in 1..Len(ws)] ==
             IF n = 1 THEN Chars(ws[1]) ELSE F[n - 1] \o <<" ">> \o Chars(ws[n])
       IN  F[Len(ws)]

ModeTexts ==
  {JoinWords(ws) : ws \in UNION {SeqsOfLen(ModeWords, n) : n \in 0..MaxWords}} \cup
  { Chars("kya,hai"), Chars("kyahai"), Chars("kya\thai"), Chars(" kya  hai "),
    Chars("kya hai!"), Chars("(kya) hai"), Chars("the dst") }

\* detectResponseMode(q): nothing computed yet; score2 is twice the score
ModeCall(q) == [pc |-> "script", q |-> q, text |-> <<>>, score2 |-> 0, mode |-> ""]

\* text = (q || "").toLowerCase(); if (/[\u0900-\u097F]/.test(text)) return "hinglish"
ModeScript ==
  /\ fn.pc = "script"
  /\ LET text == toLowerCase(fn.q)
     IN  fn' = IF \E i \in 1..Len(text) : text[i] \in Devanagari
                 THEN [fn EXCEPT !.pc = "done", !.text = text, !.mode = "hinglish"]
                 ELSE [fn EXCEPT !.pc = "tokens", !.text = text]
  /\ UNCHANGED <<file, watching, watchEvent, TOP_K, VECTORS, sessions, clock, reqs, ct, bld, prn>>

\* for (const t of hinglishTokens) if (...) score += 1
ModeTokens ==
  /\ fn.pc = "tokens"
  /\ fn' = [fn EXCEPT !.pc = "cues", !.score2 = 2 * TokenScore(fn.text, hinglishTokens)]
  /\ UNCHANGED <<file, watching, watchEvent, TOP_K, VECTORS, sessions, clock, reqs, ct, bld, prn>>

\* score += chatCues >= 1 ? 0.5 : 0; return score >= 2 ? "hinglish" : "english"
ModeCues ==
  /\ fn.pc = "cues"
  /\ LET score2 == fn.score2 + (IF HasChatCue(fn.text) THEN 1 ELSE 0)
     IN  fn' = [fn EXCEPT !.pc = "done", !.score2 = score2,
                         !.mode = IF score2 >= 4 THEN "hinglish" ELSE "english"]
  /\ UNCHANGED <<file, watching, watchEvent, TOP_K, VECTORS, sessions, clock, reqs, ct, bld, prn>>

ModeInit ==
  /\ ServerOff
  /\ ct = NoChunking
  /\ bld = NoBuild
  /\ prn = NoPrune
  /\ fn \in {ModeCall(q) : q \in ModeTexts}

ModeNext == ModeScript \/ ModeTokens \/ ModeCues

SpecMode == ModeInit /\ [][ModeNext]_vars

(* ------------------- cleanForEmbedding and what is sent for embedding --- *)

\* server.mjs line 138; embed.mjs and part_001 hold the same words
EN_STOPWORDS ==
  { "a", "about", "above", "after", "again", "against", "all", "am", "an", "and", "any", "are",
    "aren't", "as", "at", "be", "because", "been", "before", "being", "below", "between",
    "both", "but", "by", "can't", "cannot", "could", "couldn't", "did", "didn't", "do", "does",
    "doesn't", "doing", "don't", "down", "during", "each", "few", "for", "from", "further",
    "had", "hadn't", "has", "hasn't", "have", "haven't", "having", "he", "he'd", "he'll",
    "he's", "her", "here", "here's", "hers", "herself", "him", "himself", "his", "how", "how's",
    "i", "i'd", "i'll", "i'm", "i've", "if", "in", "into", "is", "isn't", "it", "it's", "its",
    "itself", "let's", "me", "more", "most", "mustn't", "my", "myself", "no", "nor", "not",
    "of", "off", "on", "once", "only", "or", "other", "ought", "our", "ours", "ourselves",
    "out", "over", "own", "same", "shan't", "she", "she'd", "she'll", "she's", "should",
    "shouldn't", "so", "some", "such", "than", "that", "that's", "the", "their", "theirs",
    "them", "themselves", "then", "there", "there's", "these", "they", "they'd", "they'll",
    "they're", "they've", "this", "those", "through", "to", "too", "under", "until", "up",
    "very", "was", "wasn't", "we", "we'd", "we'll", "we're", "we've", "were", "weren't", "what",
    "what's", "when", "when's", "where", "where's", "which", "while", "who", "who's", "whom",
    "why", "why's", "with", "won't", "would", "wouldn't", "you", "you'd", "you'll", "you're",
    "you've", "your", "yours", "yourself", "yourselves" }

\* server.mjs line 153; embed.mjs holds the same words
HINGLISH_STOPWORDS ==
  { "hai", "hain", "ho", "hona", "hoga", "hogi", "honge", "hote", "hota", "thi", "tha", "the",
    "kya", "kyu", "kyun", "kyunki", "kisi", "kis", "kaun", "konsa", "kab", "kaha", "kahaan",
    "kaise", "nahi", "nahin", "na", "mat", "bas", "sirf", "bhi", "hi", "to", "tho", "ab",
    "abhi", "phir", "fir", "ye", "yeh", "vo", "woh", "aisa", "waisa", "jab", "tab", "agar",
    "lekin", "magar", "par", "per", "ya", "aur", "ka", "ki", "ke", "mein", "me", "mai", "mei",
    "mujhe", "mujhko", "hume", "humko", "tumhe", "aap", "ap", "hum", "tum", "se", "ko", "tak",
    "pe", "liye", "kr", "kar", "karo", "karna", "karke", "krke", "krna", "ho gya", "hogaya",
    "chahiye", "chahie", "krdo", "kardo", "de", "do", "lo", "le", "dena", "lena" }

\* every word of HINDI_STOPWORDS is written in Devanagari letters only, and no
\* text of the model spells one: of the words written here, none is in the set
HINDI_STOPWORDS == {}

\* server.mjs line 172
PROTECTED_TOKENS ==
  { "hari", "chand", "anand", "anil", "hca", "duke", "duke-jia", "dukejia", "duki", "delhi",
    "india", "automation", "garment", "leather", "perforation", "embroidery", "quilting",
    "sewing", "pattern", "dst", "tajima", "servo", "36v", "contact", "call", "email", "address",
    "Branches", "Headquarters", "Head Office", "Factory", "Works", "WhatsApp", "Whatsapp",
    "Whats app", "Phone", "Brand", "Brands", "names", "name", "features", "feature",
    "specification", "specifications", "specs", "model", "models", "type", "types",
    "descriptions", "description", "Appllications", "application", "Machine_id", "Machine ID",
    "ID", "needle", "niddle", "heads", "head", "speed", "rpm", "Embroidery Area", "phase",
    "phases", "bangladesh", "ethiopia", "solution", "solutions", "mattress", "upholstery",
    "sequin", "sequins", "bead", "beads", "cording", "coiling", "taping", "rhinestone",
    "chenille", "chainstitch", "cap", "tubular", "dahao", "a18", "usb", "u-disk", "lcd",
    "touchscreen", "network", "auto-trimming", "automatic-trimming", "auto-color-change",
    "automatic-color-change", "thread-break-detection", "power-failure-recovery", "servo-motor",
    "36v-dc", "oil-mist", "dust-clean", "wide-voltage", "270-cap-frame", "es-1300", "es 1300",
    "dy pe750x600", "halo-100", "dy-601ctm", "dy sk d2-2.0rh", "dy-606", "dy-606h", "dy-606hc",
    "dy-606l", "dy-606xl", "dy-606s", "dy-606+1ct", "dy-606+1pd", "dy-602", "dy-602h",
    "dy-602hc", "dy-602l", "dy-602xl", "dy-602s", "dy-602+1ct", "dy-602+1pd", "dy 601ctm",
    "dy 606+6", "dy602+2", "dy-606+6", "dy 908", "dy 912", "dy 915-120", "dy 918-120",
    "dy 1201",
    "dy 1201l", "dy 1201h", "dy 1201xl", "dy 1201s", "dy-1201", "dy-1201l", "dy-1201h",
    "dy-1201xl", "dy-1201s", "dy Halo-100", "dy-1201+1ct", "dy-1201+1pd", "dy 1204", "dy 1206",
    "dy 1206h", "dy 1206hc", "dy-1204", "dy-1206", "dy-1206h", "dy-1206hc", "dy-1202h",
    "dy 1202h", "dy-1202", "dy-1202l", "dy-1202xl", "dy-1202s", "dy 918", "dy 915", "dy 1502",
    "dy-1502", "dy-1202hc", "dy-1203h", "dy-908", "dy-912", "dy915-120", "dy918-120", "dy cs3000",
    "duke-single-head", "duke multi-head", "duke multi head", "duke multihead",
    "dukejia-single-head", "dukejia multi-head", "dukejia multi head", "dukejia multihead",
    "dy-cs3000", "dy-pe750x600", "dy-sk-d2-2.0rh" }

\* the set of embed.mjs (line 431) and of part_001 (line 57)
PROTECTED_TOKENS_EMBED ==
  (PROTECTED_TOKENS \ {"Embroidery Area", "dy 1202h", "head", "heads", "needle", "niddle",
                       "phase", "phases", "rpm", "speed"})
    \cup {"Website", "hari-chand-anand", "hari-chand-anand-&-co", "hari-chand-anand-and-co"}

\* the words of a list, as texts
AsTexts(words) == {Chars(w) : w \in words}

AllStopTexts == AsTexts(EN_STOPWORDS \cup HINGLISH_STOPWORDS \cup HINDI_STOPWORDS)

ProtectedTexts == AsTexts(PROTECTED_TOKENS)

ProtectedTextsEmbed == AsTexts(PROTECTED_TOKENS_EMBED)

\* the characters /[^a-z0-9ऀ-ॿ\s-]/g leaves in place (server.mjs, part_001)
KeptChars == LowerLetters \cup DigitChars \cup Devanagari \cup WhiteSpace \cup {"-"}

\* the characters KEEP_REGEX leaves in place (embed.mjs); its multiplication and
\* degree signs are outside ASCII and in no text of the model
KeptCharsEmbed == KeptChars \cup {".", ",", "+", "/", "%", "\"", "'"}

\* lower.replace(regex, " ")
Strip(lower, keep) == [i \in 1..Len(lower) |-> IF lower[i] \in keep THEN lower[i] ELSE " "]

\* the characters of t at the positions that keep(i) holds for, in order
KeepAt(t, keep(_)) ==
  LET at == SelectSeq([i \in 1..Len(t) |-> i], keep)
  IN  [k \in 1..Len(at) |-> t[at[k]]]

\* stripped.split(/\s+/).filter(Boolean): the maximal runs of non-whitespace
Tokens(s) ==
  LET word(i)   == s[i] \notin WhiteSpace
      positions == [i \in 1..Len(s) |-> i]
      first     == SelectSeq(positions, LAMBDA i : word(i) /\ (i = 1 \/ ~word(i - 1)))
      last      == SelectSeq(positions, LAMBDA i : word(i) /\ (i = Len(s) \/ ~word(i + 1)))
  IN  [k \in 1..Len(first) |-> SubSeq(s, first[k], last[k])]

\* tokens.filter(...): a protected token stays, a stop token goes, any other stays
KeepTokens(tokens, protected, stop) ==
  SelectSeq(tokens, LAMBDA t : t \in protected \/ t \notin stop)

\* kept.join(" ")
JoinTokens(ts) ==
  LET F[n \in 0..Len(ts)] ==
        IF n = 0 THEN <<>> ELSE IF n = 1 THEN ts[1] ELSE F[n - 1] \o <<" ">> \o ts[n]
  IN  F[Len(ts)]

\* s.replace(/\s+/g, "").length
NonSpaceLength(s) == Cardinality({i \in 1..Len(s) : s[i] \notin WhiteSpace})

\* .replace(/\r/g, "").replace(/[ \t]+\n/g, "\n").replace(/\n{3,}/g, "\n\n"):
\* carriage returns go, blanks directly before a newline go, and of a run of
\* newlines the first two stay
normalizeWhitespace(s) ==
  LET noCr    == SelectSeq(s, LAMBDA c : c # "\r")
      blank(t, i) == t[i] \in {" ", "\t"}
      beforeNl(t, i) == \E j \in (i + 1)..Len(t) :
                          t[j] = "\n" /\ \A k \in i..(j - 1) : blank(t, k)
      noTrail == KeepAt(noCr, LAMBDA i : ~(blank(noCr, i) /\ beforeNl(noCr, i)))
      third(t, i) == i >= 3 /\ t[i] = "\n" /\ t[i - 1] = "\n" /\ t[i - 2] = "\n"
  IN  KeepAt(noTrail, LAMBDA i : ~third(noTrail, i))

\* .slice(0, 4000)
MaxEmbedChars == 4000

SliceChars(s) == IF Len(s) <= MaxEmbedChars THEN s ELSE SubSeq(s, 1, MaxEmbedChars)

\* out.replace(/\s+/g, "").length < 16
MinCleanLength == 16

\* what a cleaner gives: a text, or an exception
CleanText(t) == [threw |-> FALSE, text |-> t]

CleanThrew == [threw |-> TRUE, text |-> <<>>]

\* kept.join(" ").trim() of the tokens of s that the filter keeps
KeptText(s, keep, protected) ==
  trim(JoinTokens(KeepTokens(Tokens(Strip(toLowerCase(s), keep)), protected, AllStopTexts)))

\* server.mjs cleanForEmbedding
cleanForEmbedding(s) ==
  IF Len(s) = 0 THEN CleanText(<<>>) ELSE CleanText(KeptText(s, KeptChars, ProtectedTexts))

\* embed.mjs cleanForEmbedding (line 461), with its fallback
cleanForEmbeddingEmbed(s) ==
  IF Len(s) = 0 THEN CleanText(<<>>)
  ELSE LET out == KeptText(s, KeptCharsEmbed, ProtectedTextsEmbed)
       IN  IF NonSpaceLength(out) < MinCleanLength
             THEN CleanText(SliceChars(normalizeWhitespace(toLowerCase(s))))
             ELSE CleanText(out)

\* part_001 cleanForEmbedding: PROTECT is declared nowhere, so the filter throws a
\* ReferenceError at the first token
cleanForEmbeddingAsk(s) ==
  IF Tokens(Strip(toLowerCase(s), KeptChars)) = <<>> THEN CleanText(<<>>) ELSE CleanThrew

Cleaners == {"server", "embed", "ask"}

CleanWith(who, s) ==
  IF who = "server" THEN cleanForEmbedding(s)
  ELSE IF who = "embed" THEN cleanForEmbeddingEmbed(s)
  ELSE cleanForEmbeddingAsk(s)

\* the cleaned text sent as it is, without any fallback
SentAsCleaned(who, s) == CleanWith(who, IF who = "embed" THEN s ELSE trim(s))

\* the text of the embedding request:
\*   server.mjs 462 and part_001 199: cleanForEmbedding(q) || q.toLowerCase(), q trimmed
\*   embed.mjs 563: c && c.trim() ? c : (normalizeWhitespace(text).slice(0, 4000) || " ")
SentWith(who, s) ==
  LET c == CleanWith(who, IF who = "embed" THEN s ELSE trim(s))
  IN  IF c.threw THEN CleanThrew
      ELSE IF who = "embed"
        THEN IF Len(trim(c.text)) > 0 THEN c
             ELSE LET n == SliceChars(normalizeWhitespace(s))
                  IN  CleanText(IF Len(n) > 0 THEN n ELSE <<" ">>)
      ELSE IF Len(c.text) > 0 THEN c ELSE CleanText(toLowerCase(trim(s)))

\* the most pieces of a text put together from CleanPieces
MaxPieces == 4

CleanPieces == {"yourselves", "where were they then ", "dst", "\r", " ", "!"}

\* the pieces one after another
JoinPieces(ps) ==
  LET F[n \in 0..Len(ps)] == IF n = 0 THEN <<>> ELSE F[n - 1] \o Chars(ps[n])
  IN  F[Len(ps)]

\* a protected token in a sentence whose other words are all stop words
StopSentence(p) == Chars("what is the ") \o Chars(p) \o Chars(" of it")

CleanTexts ==
  {JoinPieces(ps) : ps \in UNION {SeqsOfLen(CleanPieces, n) : n \in 0..MaxPieces}} \cup
  { Chars("the Branches of it"), Chars("is the dy-606+1ct"), Chars("Where is Head Office"),
    Chars("what is the speed of it"), Chars("the duke-jia"), Chars("a\n \n\n\nb") } \cup
  {StopSentence(p) : p \in PROTECTED_TOKENS \cup PROTECTED_TOKENS_EMBED}

\* a cleaner applied to s, then to its own output, and the text sent for s
CleanCall(who, s) ==
  [pc |-> "call", who |-> who, s |-> s, once |-> CleanThrew, twice |-> CleanThrew,
   sent |-> CleanThrew]

CleanOnce ==
  /\ fn.pc = "call"
  /\ fn' = [fn EXCEPT !.pc = "once", !.once = CleanWith(fn.who, fn.s)]
  /\ UNCHANGED <<file, watching, watchEvent, TOP_K, VECTORS, sessions, clock, reqs, ct, bld, prn>>

CleanTwice ==
  /\ fn.pc = "once"
  /\ fn' = [fn EXCEPT !.pc = "twice",
                      !.twice = IF fn.once.threw THEN CleanThrew
                                ELSE CleanWith(fn.who, fn.once.text)]
  /\ UNCHANGED <<file, watching, watchEvent, TOP_K, VECTORS, sessions, clock, reqs, ct, bld, prn>>

CleanSend ==
  /\ fn.pc = "twice"
  /\ fn' = [fn EXCEPT !.pc = "done", !.sent = SentWith(fn.who, fn.s)]
  /\ UNCHANGED <<file, watching, watchEvent, TOP_K, VECTORS, sessions, clock, reqs, ct, bld, prn>>

CleanInit ==
  /\ ServerOff
  /\ ct = NoChunking
  /\ bld = NoBuild
  /\ prn = NoPrune
  /\ fn \in {CleanCall(who, s) : who \in Cleaners, s \in CleanTexts}

CleanNext == CleanOnce \/ CleanTwice \/ CleanSend

SpecClean == CleanInit /\ [][CleanNext]_vars

(* ======================= properties of the ask path ===================== *)

\* a run of the server in which a pending watch event is eventually handled
SpecLive == Spec /\ WF_vars(ReloadCallback)

Range(xs) == {xs[i] : i \in 1..Len(xs)}

\* the store holds nothing, or every stored vector scores below MIN_OK_SCORE
\* against the query vector of the request
NothingRelevant(req) ==
  \/ Len(VECTORS) = 0
  \/ /\ Len(req.qVec) > 0
     /\ \A i \in 1..Len(VECTORS) :
          ScoreLess(cosineSim(req.qVec, VECTORS[i].embedding), MIN_OK_SCORE)

\* C1 (confidence gate): a non-small-talk request that found the store empty, or
\* whose query scores below 0.18 against every stored vector, never calls the
\* generator and its response carries empty citations.  Stated for the legacy
\* serverless handler, whose store never changes after cold start.
C1_ConfidenceGate ==
  \A r \in Reqs :
    LET req == reqs[r]
    IN  (req.route \in {"rag", "notready"} /\ NothingRelevant(req))
          => /\ req.genCalls = 0
             /\ req.pc = "done" => req.res.citations = <<>>

\* C2 (no below-threshold context): when the generator has been called, every
\* context block composed into the prompt scores at least MIN_OK_SCORE.
C2_ContextAboveThreshold ==
  \A r \in Reqs :
    reqs[r].genCalls > 0
      => \A i \in 1..Len(reqs[r].context) :
           ~ScoreLess(reqs[r].context[i].score, MIN_OK_SCORE)

\* C3 (reload safety): a step changes the in-memory index only if it is the
\* watch callback reading a file that parses and holds at least one vector, and
\* then the new index is the complete list of the file; a callback that reads
\* anything else leaves the index exactly as it was.
C3_ReloadSafety ==
  [][ /\ VECTORS' # VECTORS
        => /\ watchEvent /\ ~watchEvent'
           /\ file.state = "json" /\ Len(file.vectors) >= 1
           /\ VECTORS' = file.vectors
      /\ (watchEvent /\ ~watchEvent' /\ ~(file.state = "json" /\ Len(file.vectors) >= 1))
        => VECTORS' = VECTORS ]_vars

\* C3 witness: a callback has read a file that does not parse, or holds no
\* vector, and the index loaded before is still in memory
C3_FailedReloadKept ==
  /\ watching /\ ~watchEvent
  /\ ~(file.state = "json" /\ Len(file.vectors) >= 1)
  /\ Len(VECTORS) > 0

\* C4 (one index version per retrieval): the list a retrieval maps over is the
\* complete vector list of one index file, and every entry of the ranked
\* result comes from that one list.
C4_OneIndexVersion ==
  \A r \in Reqs :
    LET req == reqs[r]
    IN  Len(req.scored) > 0
          => /\ req.searched \in IndexLists
             /\ \E ix \in IndexLists :
                  \A i \in 1..Len(req.scored) : req.scored[i].v \in Range(ix)

\* C4 witness: a reload replaced the index between the emptiness check of a
\* request and its retrieval, and the retrieval ranked the new list
C4_ReloadWhileInFlight ==
  \E r \in Reqs :
    /\ Len(reqs[r].scored) > 0
    /\ reqs[r].checked # reqs[r].searched
    /\ Len(reqs[r].checked) > 0

\* a populated index is at the index path
ValidIndexAtPath == file.state = "json" /\ Len(file.vectors) >= 1

\* C5 (recovery by hot reload): if from some point on a populated index stays
\* at the index path, the in-memory store eventually becomes non-empty.
C5_HotReloadRecovers == (<>[]ValidIndexAtPath) => <>(Len(VECTORS) > 0)

\* C6 (empty index): a non-small-talk request that finds the index empty ends
\* with a normal answer, the 'not ready' message in the detected mode, with
\* empty citations, and calls neither provider.
C6_NotReadyAnswer ==
  \A r \in Reqs :
    LET req == reqs[r]
    IN  req.route = "notready"
          => /\ req.pc = "done"
             /\ req.res.status = 200
             /\ req.res.answer.kind = "notready"
             /\ req.res.answer.mode = req.mode
             /\ req.res.hasCitations /\ req.res.citations = <<>>
             /\ req.embedCalls = 0 /\ req.genCalls = 0

(* ======================= properties of chunkText ======================== *)

\* the chunks the windows give: the trimmed slices that are not empty, in order
RECURSIVE ChunksOf(_, _)
ChunksOf(text, w) ==
  IF w = <<>> THEN <<>>
  ELSE LET c == trim(slice(text, Head(w).start, Head(w).end))
       IN  (IF Len(c) > 0 THEN <<c>> ELSE <<>>) \o ChunksOf(text, Tail(w))

\* C7 (chunking windows): with 0 <= overlap < size the windows start at 0, each
\* next window starts exactly size - overlap after the previous one, no window
\* is empty, only the last may be shorter than size, and when chunkText returns
\* the windows cover every position 0..L-1; the chunks returned are the trimmed
\* non-empty slices of these windows.
C7_ChunkWindows ==
  (0 <= ct.overlap /\ ct.overlap < ct.size)
    => LET w == ct.windows
           n == Len(ct.windows)
       IN  /\ n > 0 => w[1].start = 0
           /\ \A i \in 1..(n - 1) : w[i + 1].start = w[i].start + ct.size - ct.overlap
           /\ \A i \in 1..n : w[i].start < w[i].end /\ w[i].end - w[i].start <= ct.size
           /\ \A i \in 1..(n - 1) : w[i].end - w[i].start = ct.size
           /\ ct.chunks = ChunksOf(ct.text, w)
           /\ ct.pc = "done"
                => \A p \in 0..(Len(ct.text) - 1) :
                     \E i \in 1..n : w[i].start <= p /\ p < w[i].end

\* C7 witness: chunkText has returned from a call with 0 < overlap < size that
\* took several windows, the last of them shorter than size
C7_ShortLastWindow ==
  /\ ct.pc = "done"
  /\ 0 < ct.overlap /\ ct.overlap < ct.size
  /\ Len(ct.windows) >= 2
  /\ ct.windows[Len(ct.windows)].end - ct.windows[Len(ct.windows)].start < ct.size

\* the call of the scenario: 26 characters, no whitespace, size 10, overlap 2
IsScenario ==
  /\ ct.text = ScenarioCall.text
  /\ ct.size = ScenarioCall.size
  /\ ct.overlap = ScenarioCall.overlap

Starts(w) == [i \in 1..Len(w) |-> w[i].start]

Lengths(cs) == [i \in 1..Len(cs) |-> Len(cs[i])]

\* C8 as the code has it: the scenario yields exactly three chunks, at offsets
\* [0, 8, 16] with lengths [10, 10, 10]; the loop never takes a fourth window.
C8_ScenarioThreeChunks ==
  IsScenario
    => /\ Len(ct.windows) <= 3
       /\ Starts(ct.windows) = SubSeq(<<0, 8, 16>>, 1, Len(ct.windows))
       /\ ct.pc = "done"
            => /\ Starts(ct.windows) = <<0, 8, 16>>
               /\ Lengths(ct.chunks) = <<10, 10, 10>>

\* C8 witness: chunkText has returned from the call of the scenario
C8_ScenarioDone == IsScenario /\ ct.pc = "done"

\* C8 as stated: the scenario yields exactly four chunks, at offsets
\* [0, 8, 16, 24] with lengths [10, 10, 10, 2].
C8_ScenarioFourChunks ==
  (IsScenario /\ ct.pc = "done")
    => /\ Starts(ct.windows) = <<0, 8, 16, 24>>
       /\ Lengths(ct.chunks) = <<10, 10, 10, 2>>

(* =============== properties of the index the scripts write ============== *)

\* the ids are 0, 1, ..., n-1, in this order
DenseIds(vectors) == \A i \in 1..Len(vectors) : vectors[i].id = i - 1

\* C9 (id density): after a build the persisted index holds one vector for
\* each chunk produced and its ids are exactly 0..n-1, whatever the provider
\* returned per batch; after a prune of a dense index the ids are exactly 0..n-1.
C9_IdsDense ==
  /\ bld.pc = "done" => DenseIds(file.vectors) /\ Len(file.vectors) = Len(bld.allChunks)
  /\ prn.pc = "done" => DenseIds(file.vectors)

\* the name set, read as prune-index.mjs reads it: without regard to case, and
\* to white space around the configured names
MatchesName(names, source) ==
  \E n \in names : toLowerCase(trim(n)) = toLowerCase(source)

\* a vector, its id set aside
SansId(v) == [v EXCEPT !.id = 0]

\* C10 as the code has it: after a prune with the name set R no remaining
\* vector has a source that matches a name of R (case-insensitively, the names
\* of R trimmed), every vector whose source matches no name of R is retained
\* in its original relative order with all fields other than id unchanged,
\* and meta.sources keeps exactly its names that match no name of R, so it
\* lists the source of every remaining vector.
C10_PruneResult ==
  prn.pc = "done"
    => LET keep(src) == ~MatchesName(prn.names, src)
           before    == SelectSeq(prn.orig.vectors, LAMBDA v : keep(v.source))
       IN  /\ \A i \in 1..Len(file.vectors) : keep(file.vectors[i].source)
           /\ Len(file.vectors) = Len(before)
           /\ \A i \in 1..Len(before) : SansId(file.vectors[i]) = SansId(before[i])
           /\ file.hasMeta = prn.orig.hasMeta
           /\ file.hasMeta
                => /\ file.sources = SelectSeq(prn.orig.sources, keep)
                   /\ \A i \in 1..Len(file.vectors) :
                        file.vectors[i].source \in Range(file.sources)

\* C10 witness: a prune has removed a vector whose source is not literally in
\* the name set, and has kept another
C10_RemovedByCase ==
  /\ prn.pc = "done"
  /\ Len(file.vectors) > 0
  /\ \E i \in 1..Len(prn.orig.vectors) :
       /\ prn.orig.vectors[i].source \notin prn.names
       /\ MatchesName(prn.names, prn.orig.vectors[i].source)

\* C10 as stated: no remaining vector has a source in R, every vector whose
\* source is not in R is retained in order with its fields other than id, and
\* meta.sources lists no name in R.
C10_PruneResultLiteral ==
  prn.pc = "done"
    => LET keep(src) == src \notin prn.names
           before    == SelectSeq(prn.orig.vectors, LAMBDA v : keep(v.source))
       IN  /\ \A i \in 1..Len(file.vectors) : keep(file.vectors[i].source)
           /\ Len(file.vectors) = Len(before)
           /\ \A i \in 1..Len(before) : SansId(file.vectors[i]) = SansId(before[i])
           /\ file.hasMeta => \A i \in 1..Len(file.sources) : keep(file.sources[i])


(* ======================= properties of the retrieval ==================== *)

SameScore(s, t) == ~ScoreLess(s, t) /\ ~ScoreLess(t, s)

\* the ids of the entries a retrieval returned, in the order returned
ReturnedIds == [i \in 1..Len(fn.scored) |-> fn.scored[i].v.id]

\* C11: the retrieval returns min(k, store size) entries of the store, each with
\* its cosine score, none twice, no entry left out scoring above a returned one,
\* in non-increasing order of score, entries of equal score in the order of their
\* store index; the store scoring 0.5, 0.3, 0.1 with k = 2 returns its first two
\* entries at threshold 0.18 and the no-context outcome at threshold 0.6.
C11_TopK ==
  fn.pc \in {"ranked", "done"} =>
    LET scored == fn.scored
        n      == Len(scored)
    IN  /\ n = Min(fn.k, Len(fn.store))
        /\ \A i \in 1..n :
             /\ scored[i].v.id \in 0..(Len(fn.store) - 1)
             /\ scored[i].v = fn.store[scored[i].v.id + 1]
             /\ scored[i].score = cosineSim(fn.qVec, scored[i].v.embedding)
        /\ \A i, j \in 1..n :
             i < j => /\ ~ScoreLess(scored[i].score, scored[j].score)
                      /\ scored[i].v.id # scored[j].v.id
                      /\ SameScore(scored[i].score, scored[j].score)
                           => scored[i].v.id < scored[j].v.id
        /\ \A i \in 1..n : \A m \in 1..Len(fn.store) :
             (\A j \in 1..n : scored[j].v.id # m - 1)
               => ~ScoreLess(scored[i].score, cosineSim(fn.qVec, fn.store[m].embedding))
        /\ (fn.store = ScenarioStore /\ fn.qVec = ScenarioQuery /\ fn.k = 2) =>
             /\ ReturnedIds = <<0, 1>>
             /\ SameScore(scored[1].score, [num |-> 5, sq |-> 100])
             /\ SameScore(scored[2].score, [num |-> 3, sq |-> 100])
             /\ (fn.pc = "done" /\ fn.min = MIN_OK_SCORE) => fn.outcome = "context"
             /\ (fn.pc = "done" /\ fn.min = StrictThreshold) => fn.outcome = "no-context"

\* a finished retrieval of the top 2 of 3: the last entry of the store scores
\* highest and comes first, the first two score the same and the earlier is kept
C11_TieCut ==
  /\ fn.pc = "done"
  /\ fn.k = 2
  /\ Len(fn.store) = 3
  /\ ReturnedIds = <<2, 0>>
  /\ SameScore(cosineSim(fn.qVec, fn.store[1].embedding),
               cosineSim(fn.qVec, fn.store[2].embedding))


(* ======================= properties of the small-talk intent ============ *)

\* the fixed short-token sets, each with its intent
ShortSets ==
  << [tokens |-> HELLO_SHORT, kind |-> "hello"], [tokens |-> BYE_SHORT, kind |-> "bye"],
     [tokens |-> THANKS_SHORT, kind |-> "thanks"], [tokens |-> GM_SHORT, kind |-> "morning"],
     [tokens |-> GA_SHORT, kind |-> "afternoon"], [tokens |-> GE_SHORT, kind |-> "evening"] >>

ShortHits(q) == {k \in 1..Len(ShortSets) : shortOf(q) \in ShortSets[k].tokens}

PatternHits(q) == {i \in 1..Len(patterns) : PatternTest(patterns[i], trim(q))}

\* C12: a text whose short-token form is in a short-token set gets the intent of
\* that set and no pattern is consulted for it; for any other text the patterns
\* are consulted top to bottom, up to and including the first that matches, whose
\* intent it gets; the intent is none exactly when no set and no pattern matches.
C12_SmallTalkPrecedence ==
  LET sh  == ShortHits(fn.q)
      ph  == PatternHits(fn.q)
      n   == Len(fn.consulted)
  IN  /\ fn.consulted = [i \in 1..n |-> i]
      /\ \A i \in 1..n : i \in ph => (i = n /\ fn.pc = "done")
      /\ sh # {} => n = 0
      /\ fn.pc = "done" =>
           /\ \A k \in sh : fn.intent = ShortSets[k].kind
           /\ (sh = {} /\ ph # {}) => (n \in ph /\ fn.intent = patterns[n].kind)
           /\ (sh = {} /\ ph = {}) => n = Len(patterns)
           /\ fn.intent = "none" <=> (sh = {} /\ ph = {})

\* a finished text whose short-token form is in a set while the first pattern
\* would not have matched it
C12_ShortTokenWins ==
  /\ fn.pc = "done"
  /\ fn.q = Chars("h i")
  /\ fn.intent = "hello"
  /\ PatternHits(fn.q) = {}


(* ======================= properties of the requests ===================== *)

\* the small-talk intent of the question of a request
IntentOf(req) ==
  LET t == AskText[req.question]
  IN  IF t.quickKind # "none" THEN t.quickKind ELSE t.kind

\* the request was accepted: it has begun and its question is not missing
Accepted(req) == req.pc # "idle" /\ Len(req.question) > 0

\* the embedding call of the request threw
EmbedThrew(req) == req.pc = "done" /\ req.res.error = "thrown" /\ req.genCalls = 0

C13_SmallTalkIsCanned ==
  \A r \in Reqs :
    LET req == reqs[r]
    IN  (Accepted(req) /\ IntentOf(req) # "none") =>
          /\ req.pc = "done"
          /\ req.res.status = 200
          /\ req.res.answer.kind \in {"canned", "minimal"}
          /\ req.res.answer.talk = IntentOf(req)
          /\ req.res.hasCitations /\ req.res.citations = <<>>
          /\ req.embedCalls = 0 /\ req.genCalls = 0
          /\ req.searched = <<>> /\ req.scored = <<>>

C13_OthersEmbedThenSearch ==
  \A r \in Reqs :
    LET req == reqs[r]
    IN  (Accepted(req) /\ IntentOf(req) = "none" /\ req.route # "notready") =>
          /\ req.embedCalls = 1
          /\ req.pc = "embedding" => (req.searched = <<>> /\ req.genCalls = 0)
          /\ (req.pc # "embedding" /\ ~EmbedThrew(req)) => Len(req.searched) > 0

C13_NonEmptyStoreEmbeds ==
  \A r \in Reqs :
    (reqs[r].pc = "idle" /\ Accepted(reqs'[r]) /\ IntentOf(reqs'[r]) = "none"
       /\ Len(VECTORS) > 0)
      => (reqs'[r].pc = "embedding" /\ reqs'[r].embedCalls = 1)

WholeWordMatches(q) ==
  LET text == toLowerCase(q)
      IsWord(a, b) == /\ a <= b
                      /\ \A i \in a..b : text[i] # " "
                      /\ a = 1 \/ text[a - 1] = " "
                      /\ b = Len(text) \/ text[b + 1] = " "
      words == {SubSeq(text, a, b) : <<a, b>> \in
                  {ab \in (1..Len(text)) \X (1..Len(text)) : IsWord(ab[1], ab[2])}}
  IN  {i \in 1..Len(hinglishTokens) : Chars(hinglishTokens[i]) \in words}

\* twice the score: two for each listed token that is a whole word, one for a chat cue
Score2Of(q) == 2 * Cardinality(WholeWordMatches(q)) + (IF HasChatCue(toLowerCase(q)) THEN 1 ELSE 0)

HasDevanagari(q) == \E i \in 1..Len(q) : q[i] \in Devanagari

\* C14: the mode of a text with a Devanagari character is 'hinglish' (mixed)
\* whatever its score; of any other text it is 'hinglish' exactly when the score
\* is at least 2, the score counting 1 for each listed token that is a whole
\* (space-delimited) word of the text and 0.5 for a chat cue, and 'english'
\* (plain) otherwise, so at a score of 1.5.
C14_LanguageMode ==
  fn.pc = "done" =>
    /\ fn.mode \in {"hinglish", "english"}
    /\ HasDevanagari(fn.q) => fn.mode = "hinglish"
    /\ ~HasDevanagari(fn.q) =>
         /\ fn.score2 = Score2Of(fn.q)
         /\ fn.mode = "hinglish" <=> Score2Of(fn.q) >= 4
         /\ Score2Of(fn.q) = 3 => fn.mode = "english"

\* a text of one listed token and a chat cue, score 1.5, got the mode 'english'
C14_OneAndAHalf ==
  /\ fn.pc = "done"
  /\ fn.q = Chars("kya !!")
  /\ fn.score2 = 3
  /\ fn.mode = "english"


(* ======================= properties of the sessions ===================== *)

\* this step is the handling of a reset request for session sid
ResetStep(sid) == fn' # fn /\ fn'.pc = "reset" /\ fn'.sid = sid

\* C15, as amended: a reset request for an existing session leaves the session
\* with a history of length 0 and its createdAt as before, while the middleware
\* that admits the request counts it: the hit count is one more than before the
\* request and lastSeen is the time of the request; no other session changes.
C15_ResetCountsTheRequest ==
  [][\A sid \in Sids :
       (ResetStep(sid) /\ sid \in DOMAIN sessions) =>
         /\ Len(sessions'[sid].history) = 0
         /\ sessions'[sid].createdAt = sessions[sid].createdAt
         /\ sessions'[sid].hits = sessions[sid].hits + 1
         /\ sessions'[sid].lastSeen = fn'.at
         /\ DOMAIN sessions' = DOMAIN sessions
         /\ \A other \in DOMAIN sessions \ {sid} : sessions'[other] = sessions[other]]_vars

\* C15 as stated: a reset request for an existing session empties the history and
\* leaves createdAt and the hit count as they were before the request
C15_ResetKeepsCounters ==
  [][\A sid \in Sids :
       (ResetStep(sid) /\ sid \in DOMAIN sessions) =>
         /\ Len(sessions'[sid].history) = 0
         /\ sessions'[sid].createdAt = sessions[sid].createdAt
         /\ sessions'[sid].hits = sessions[sid].hits]_vars

\* a session that answered one query has just been reset: its second hit
C15_ResetAfterQuery ==
  /\ fn.pc = "reset"
  /\ fn.sid \in DOMAIN sessions
  /\ sessions[fn.sid].history = <<>>
  /\ sessions[fn.sid].hits = 2
  /\ sessions[fn.sid].createdAt < fn.at
  /\ sessions[fn.sid].lastSeen = fn.at
  /\ \E r \in Reqs : reqs[r].pc = "done" /\ reqs[r].sid = fn.sid /\ reqs[r].res.status = 200


IsPrefix(h, g) == Len(h) <= Len(g) /\ SubSeq(g, 1, Len(h)) = h

\* this step is the handling of a session read or a history read
ReadStep == fn' # fn /\ fn'.pc \in {"session", "history"}

\* C16: no session is ever dropped; in every step that is not a reset of the
\* session, the history of the session before the step is a prefix of its history
\* after it (the two reads leave it as it is), so no turn is removed, reordered
\* or modified; a reset of the session leaves its history empty.
C16_HistoryAppendOnly ==
  [][\A sid \in DOMAIN sessions :
       /\ sid \in DOMAIN sessions'
       /\ ResetStep(sid) => sessions'[sid].history = <<>>
       /\ ~ResetStep(sid) => IsPrefix(sessions[sid].history, sessions'[sid].history)
       /\ ReadStep => sessions'[sid].history = sessions[sid].history]_vars

\* a history read with n = 1 returned the last of two turns and left both in place
C16_ReadLeavesHistory ==
  /\ fn.pc = "history"
  /\ Len(sessions[fn.sid].history) = 2
  /\ fn.res.items = <<sessions[fn.sid].history[2]>>


\* the history of a session, empty for a session not yet created
HistoryOf(ss, sid) == IF sid \in DOMAIN ss THEN ss[sid].history ELSE <<>>

\* what this step appended to the history of session sid
Appended(sid) ==
  SubSeq(HistoryOf(sessions', sid), Len(HistoryOf(sessions, sid)) + 1,
         Len(HistoryOf(sessions', sid)))

\* the turns the handler of request r has to append in a step that takes it from
\* pc to pc'
TurnsDue(before, after) ==
  LET user      == [role |-> "user", text |-> trim(after.question)]
      assistant == [role |-> "assistant", answer |-> after.res.answer]
      answered  == after.pc = "done" /\ after.res.status = 200
  IN  IF before.pc \in {"idle", "embedding"} /\ answered THEN <<user, assistant>>
      ELSE IF before.pc = "embedding" /\ after.pc = "generating" THEN <<user>>
      ELSE IF before.pc = "generating" /\ answered THEN <<assistant>>
      ELSE <<>>

\* C17: the handler of a query appends to the history of its session, over the
\* steps that take it to an answer (small-talk reply, not-ready message,
\* low-confidence tip or generated text), one user turn holding the question and
\* then one assistant turn holding the answer it returns, and nothing else; a
\* query that ends without an answer appends no assistant turn.
C17_BothTurnsRecorded ==
  [][\A r \in Reqs :
       reqs'[r] # reqs[r] =>
         /\ Appended(reqs'[r].sid) = TurnsDue(reqs[r], reqs'[r])
         /\ reqs'[r].pc = "done" =>
              (reqs'[r].res.status = 200 <=> reqs'[r].res.answer.kind # "none")
         /\ reqs[r].pc # "idle" =>
              (reqs'[r].sid = reqs[r].sid /\ reqs'[r].question = reqs[r].question)
         /\ <<reqs[r].pc, reqs'[r].pc>> \in
              {<<"idle", "done">>, <<"idle", "embedding">>, <<"embedding", "done">>,
               <<"embedding", "generating">>, <<"generating", "done">>}]_vars

\* a query answered with generated text: its session holds the question and then
\* the answer
C17_GeneratedRecorded ==
  \E r \in Reqs :
    /\ reqs[r].pc = "done"
    /\ reqs[r].res.answer.kind = "generated"
    /\ sessions[reqs[r].sid].history =
         << [role |-> "user", text |-> trim(reqs[r].question)],
            [role |-> "assistant", answer |-> reqs[r].res.answer] >>


(* ======================= properties of the provider calls =============== *)

\* a request ended by an exception of a provider call
Threw(req) == req.pc = "done" /\ req.res.error = "thrown"

C18_CallsInOrder ==
  \A r \in Reqs :
    LET req == reqs[r]
    IN  /\ req.embedCalls \in {0, 1}
        /\ req.genCalls \in {0, 1}
        /\ req.pc = "embedding" => (req.embedCalls = 1 /\ req.genCalls = 0)
        /\ req.pc = "generating" => req.genCalls = 1
        /\ req.genCalls = 1 =>
             /\ req.embedCalls = 1
             /\ req.pc \in {"generating", "done"}
             /\ Len(req.scored) > 0
             /\ ~ScoreLess(req.scored[1].score, MIN_OK_SCORE)
             /\ req.context = req.scored
        /\ Threw(req) => (req.res.status >= 400 /\ req.res.answer.kind = "none")

C18_FailureEnds ==
  \A r \in Reqs :
    /\ reqs[r].pc = "done" => reqs'[r] = reqs[r]
    /\ (reqs[r].pc = "embedding" /\ reqs'[r].pc = "generating")
         => (reqs'[r].embedCalls = 1 /\ reqs'[r].genCalls = 1)
    /\ (reqs[r].pc \in {"embedding", "generating"} /\ reqs'[r].pc = "done")
         => (reqs'[r].embedCalls = reqs[r].embedCalls /\ reqs'[r].genCalls = reqs[r].genCalls)
    /\ (reqs[r].pc \in {"embedding", "generating"} /\ reqs'[r].pc = reqs[r].pc)
         => reqs'[r] = reqs[r]

\* C18: a request calls the embedding provider at most once and the generator at
\* most once, the generator only once the embedding call has returned and the
\* ranked result has passed the gate; a call that fails ends the request with an
\* error response, the call is not repeated and no other provider call follows.
C18_ProviderCalls == []C18_CallsInOrder /\ [][C18_FailureEnds]_vars

\* a request whose generator call failed after its embedding call had returned
C18_GeneratorFailed ==
  \E r \in Reqs :
    /\ Threw(reqs[r])
    /\ reqs[r].embedCalls = 1
    /\ reqs[r].genCalls = 1
    /\ reqs[r].res.status = 500


\* the embedding call of the request returned and gave no query vector
NoQueryVector(req) ==
  req.embedCalls = 1 /\ req.pc # "embedding" /\ ~EmbedThrew(req) /\ Len(req.qVec) = 0

\* C19: a request whose embedding call returned a response without a query
\* vector ends with an error reported to the caller (a status of 400 or more and
\* no answer); it is not answered with a normal reply such as the
\* low-confidence tip, and it does not go on to the generator.
C19_EmbeddingFailureSurfaced ==
  \A r \in Reqs :
    NoQueryVector(reqs[r]) =>
      /\ reqs[r].pc = "done"
      /\ reqs[r].res.status >= 400
      /\ reqs[r].res.answer.kind = "none"
      /\ reqs[r].genCalls = 0


(* ======================= properties of the validation =================== *)

C20_Rejected ==
  \A r \in Reqs :
    (reqs[r].pc # "idle" /\ Len(reqs[r].question) = 0) =>
      /\ reqs[r].pc = "done"
      /\ reqs[r].res.status = 400
      /\ reqs[r].res.answer.kind = "none"
      /\ reqs[r].embedCalls = 0
      /\ reqs[r].genCalls = 0

C20_NothingAppended ==
  \A r \in Reqs :
    (reqs'[r] # reqs[r] /\ Len(reqs'[r].question) = 0) =>
      \A sid \in Sids : Appended(sid) = <<>>

LastOf(h, k) == SubSeq(h, Len(h) - k + 1, Len(h))

\* C21: a history read asked for n turns returns the last min(n, length) turns
\* of the history of the session, in their order: none for n = 0, and never more
\* than 100.
C21_HistoryRead ==
  [][(fn' # fn /\ fn'.pc = "history") =>
       LET h == sessions'[fn'.sid].history
       IN  /\ fn'.res.items = LastOf(h, Min(fn'.arg, Len(h)))
           /\ fn'.arg = 0 => fn'.res.items = <<>>
           /\ Len(fn'.res.items) <= 100]_vars


(* ======================= properties of cleanForEmbedding ================== *)

\* a cleaner has been applied to a text and then to its own output
CleanedTwice(who) == fn.pc \in {"twice", "done"} /\ fn.who = who /\ ~fn.once.threw

\* C22: normalizer idempotence: cleaning the output of a cleaner gives that output
\* again, for the cleaner of server.mjs and for the cleaner of embed.mjs, the inputs
\* that take the fallback to the whitespace-normalized original included.
C22_CleanIdempotent ==
  \A who \in {"server", "embed"} : CleanedTwice(who) => fn.twice = fn.once

\* the part of C22 that the code keeps: the cleaner of server.mjs alone
C22_ServerCleanIdempotent == CleanedTwice("server") => fn.twice = fn.once


\* the protected vocabulary of a cleaner
ProtectedOf(who) == IF who = "embed" THEN PROTECTED_TOKENS_EMBED ELSE PROTECTED_TOKENS

\* a cleaner has been applied to the stop-word sentence around p
CleanedSentence(who, p) ==
  fn.pc \in {"once", "twice", "done"} /\ fn.who = who /\ fn.s = StopSentence(p)

\* C23: protected-token preservation: for every token of the protected vocabulary,
\* placed in a sentence whose other words are all stop words, the cleaner of
\* server.mjs and the cleaner of part_001 return a text that contains the token.
C23_ProtectedSurvives ==
  \A who \in {"server", "ask"} : \A p \in ProtectedOf(who) :
    CleanedSentence(who, p) => ~fn.once.threw /\ includes(fn.once.text, Chars(p))

\* the part of C23 that server.mjs keeps: a protected token spelt with a-z, 0-9
\* and "-" only is one token of the stripped text and is in the output
C23_PlainProtectedSurvives ==
  \A p \in PROTECTED_TOKENS :
    (CleanedSentence("server", p) /\ \A i \in 1..Len(Chars(p)) :
        Chars(p)[i] \in KeptChars \ WhiteSpace)
      => includes(fn.once.text, Chars(p))

\* the protected tokens that the cleaner of server.mjs does not return, even in
\* lower case
C23_ServerLowerCaseSurvives ==
  \A p \in PROTECTED_TOKENS :
    CleanedSentence("server", p) => includes(fn.once.text, toLowerCase(Chars(p)))


\* a text has been cleaned and sent for embedding by server.mjs or embed.mjs
SentBy(who) == fn.pc = "done" /\ fn.who = who

\* C24: degenerate-clean fallback, as the code has it: a text with non-whitespace
\* content is never sent empty or whitespace-only. A chunk whose cleaned text has
\* fewer than 16 non-whitespace characters is sent as its lower-cased,
\* whitespace-normalized original, any other chunk as cleaned. A query whose
\* cleaned text is empty is sent as its lower-cased trimmed original, any other
\* query as cleaned, however short.
C24_Fallback ==
  /\ \A who \in {"server", "embed"} :
        (SentBy(who) /\ NonSpaceLength(fn.s) > 0)
          => ~fn.sent.threw /\ NonSpaceLength(fn.sent.text) > 0
  /\ (SentBy("embed") /\ NonSpaceLength(fn.s) > 0) =>
        LET out == KeptText(fn.s, KeptCharsEmbed, ProtectedTextsEmbed)
        IN  fn.sent.text = IF NonSpaceLength(out) < MinCleanLength
                             THEN SliceChars(normalizeWhitespace(toLowerCase(fn.s)))
                             ELSE out
  /\ (SentBy("server") /\ NonSpaceLength(fn.s) > 0) =>
        LET out == KeptText(trim(fn.s), KeptChars, ProtectedTexts)
        IN  fn.sent.text = IF out = <<>> THEN toLowerCase(trim(fn.s)) ELSE out

\* a query of stop words only has been sent as its lower-cased original
C24_StopWordQuerySent ==
  /\ SentBy("server")
  /\ fn.s = Chars("yourselves yourselves")
  /\ fn.once.text = <<>>
  /\ fn.sent.text = fn.s

\* C24 as stated: a text that is not near-empty itself (16 or more non-whitespace
\* characters) is never sent near-empty, as a query or as a chunk
C24_NeverNearEmpty ==
  \A who \in {"server", "embed"} :
    (SentBy(who) /\ NonSpaceLength(fn.s) >= MinCleanLength)
      => NonSpaceLength(fn.sent.text) >= MinCleanLength


(* ======================= properties of the first turn ===================== *)

\* request r was taken up on a first turn with a blank question
FirstTurnBlank(r) ==
  reqs[r].pc # "idle" /\ reqs[r].first /\ isBlankOf(trim(reqs[r].question))

\* request r was answered with the minimal assist line and nothing else was done
MinimalAssistOnly(r) ==
  /\ reqs[r].pc = "done"
  /\ reqs[r].res.status = 200
  /\ reqs[r].res.answer.kind = "minimal"
  /\ reqs[r].res.citations = <<>>
  /\ reqs[r].embedCalls = 0
  /\ reqs[r].genCalls = 0
  /\ reqs[r].searched = <<>>

\* C25: first-turn blank case: on a first turn, a blank question (empty, or of
\* white space and ? . ! only) is answered with the minimal assist line and empty
\* citations, is not rejected, and no embedding, search or generator call is made.
C25_FirstTurnBlank == \A r \in Reqs : FirstTurnBlank(r) => MinimalAssistOnly(r)

\* the part of C25 that health.mjs keeps: a first-turn question of ? . ! only
C25_FirstTurnPunctuation ==
  \A r \in Reqs :
    (FirstTurnBlank(r) /\ Len(trim(reqs[r].question)) > 0) => MinimalAssistOnly(r)


(* ======================= the port and server.mjs ========================== *)

\* a small-talk decision: whether small talk matched, which intent, and whether
\* the minimal first-turn line is the reply
Decision(matched, talk, minimal) ==
  [matched |-> matched, talk |-> IF matched THEN talk ELSE "none",
   minimal |-> matched /\ minimal]

\* the decision the serverless handler made for request r
PortDecision(r) ==
  Decision(reqs[r].route = "smalltalk", reqs[r].res.answer.talk,
           reqs[r].res.answer.kind = "minimal")

\* the decision server.mjs makes for the question on a session whose history is
\* empty exactly when first holds
ServerDecision(question, first) ==
  LET b == Branch(AskText[question], Len(question) = 0, first)
  IN  Decision(b.route \in {"quick", "regex"}, b.talk, b.minimal)

\* C26: port equivalence: for every question and first-turn flag, the small-talk
\* decision of the serverless handler (matched or not, which intent, minimal line
\* or not) is the decision server.mjs makes for that question on a session whose
\* history is empty exactly when the flag is set.
C26_PortEquivalence ==
  \A r \in Reqs :
    reqs[r].pc # "idle" => PortDecision(r) = ServerDecision(reqs[r].question, reqs[r].first)

\* the part of C26 that the port keeps: without the first-turn flag the decisions
\* are the same
C26_SameAfterFirstTurn ==
  \A r \in Reqs :
    (reqs[r].pc # "idle" /\ ~reqs[r].first)
      => PortDecision(r) = ServerDecision(reqs[r].question, FALSE)


(* ======================= a provider call that fails ======================= *)

\* this step ends request r, waiting at pc for the provider, with the error
\* response of the catch block
FailsAt(r, pc) ==
  /\ reqs[r].pc = pc
  /\ reqs'[r].pc = "done"
  /\ reqs'[r].res.error = "thrown"

\* the user turn of question q stands in history h without an assistant turn after it
LoneUserTurn(h, q) ==
  \E i \in 1..Len(h) :
    h[i] = UserTurn(q) /\ (i = Len(h) \/ h[i + 1].role # "assistant")

\* C27: state unchanged on provider failure: when the embedding call or the
\* generator call of a query fails, the step that answers with the error leaves the
\* history of the session without a user turn of that query that has no assistant
\* turn after it.
C27_FailureLeavesHistory ==
  [][\A r \in Reqs : \A pc \in {"embedding", "generating"} :
       FailsAt(r, pc) => ~LoneUserTurn(HistoryOf(sessions', reqs[r].sid), reqs[r].q)]_vars

\* the part of C27 that the code keeps: from the start of the query to a failed
\* embedding call nothing is pushed
C27_EmbeddingFailureLeavesHistory ==
  [][\A r \in Reqs :
       /\ (reqs[r].pc = "idle" /\ reqs'[r].pc = "embedding")
             => HistoryOf(sessions', reqs'[r].sid) = HistoryOf(sessions, reqs'[r].sid)
       /\ FailsAt(r, "embedding") => sessions' = sessions]_vars


(* ======================= reset and a query in flight ====================== *)

\* request r awaits the generator and the user turn it pushed before the call is
\* no longer in the history of its session: the session was reset in between
ResetInFlight(r) ==
  /\ reqs[r].pc = "generating"
  /\ \A i \in 1..Len(HistoryOf(sessions, reqs[r].sid)) :
        HistoryOf(sessions, reqs[r].sid)[i] # UserTurn(reqs[r].q)

\* C28: reset versus in-flight query: when a session is reset while a query for it
\* awaits the generator, the step that finishes the query leaves no turn of that
\* query in the history: neither its user turn nor its assistant turn.
C28_ResetDropsLateTurn ==
  [][\A r \in Reqs :
       (ResetInFlight(r) /\ reqs'[r].pc = "done")
         => \A i \in 1..Len(HistoryOf(sessions', reqs[r].sid)) :
              /\ HistoryOf(sessions', reqs[r].sid)[i] # UserTurn(reqs[r].q)
              /\ HistoryOf(sessions', reqs[r].sid)[i] # AssistantTurn(reqs'[r].res.answer)]_vars


(* ======================= one session and the others ====================== *)

\* the entry of session sid in the map, or that there is none
EntryOf(ss, sid) == IF sid \in DOMAIN ss THEN <<ss[sid]>> ELSE <<>>

\* this step is a step of a request that carries session id sid
StepOf(sid) ==
  \/ \E r \in Reqs : reqs'[r] # reqs[r] /\ reqs'[r].sid = sid
  \/ fn' # fn /\ fn'.sid = sid

\* C29: session isolation: under any interleaving of requests, a step of a request
\* that carries session id A changes the history, createdAt, lastSeen and hit
\* count of no other session B, and neither creates nor deletes the entry of B.
C29_SessionIsolation ==
  [][\A B \in Sids : EntryOf(sessions', B) # EntryOf(sessions, B) => StepOf(B)]_vars

\* session B was reset after the query of session A had started, the query of A
\* has been answered by the generator, and each session holds what its own
\* requests did
C29_TwoSessions ==
  /\ DOMAIN sessions = {"A", "B"}
  /\ \E r \in Reqs : reqs[r].sid = "A" /\ reqs[r].pc = "done"
                       /\ reqs[r].res.answer.kind = "generated"
  /\ fn.pc = "reset" /\ fn.sid = "B"
  /\ sessions["A"].createdAt < sessions["B"].createdAt
  /\ Len(sessions["A"].history) = 2
  /\ sessions["A"].hits = 1
  /\ sessions["B"].history = <<>>
  /\ sessions["B"].hits = 1


(* ======================= termination of chunkText ======================== *)

\* size >= 1 and 0 <= overlap < size
ValidChunking == ct.size >= 1 /\ 0 <= ct.overlap /\ ct.overlap < ct.size

\* C30: chunking terminates: with size >= 1 and 0 <= overlap < size, chunkText
\* returns for every text, because each iteration of its loop either ends the loop
\* or strictly increases the start of the window.
C30_ChunkingTerminates ==
  /\ [][(ValidChunking /\ ct.pc = "loop") => (ct'.pc = "done" \/ ct'.start > ct.start)]_vars
  /\ (ValidChunking ~> ct.pc = "done")

\* chunkText has returned from a call with 0 < overlap < size after three or more
\* iterations, each window starting after the one before
C30_ReturnedAfterWindows ==
  /\ ct.pc = "done"
  /\ ValidChunking
  /\ ct.overlap > 0
  /\ Len(ct.windows) >= 3
  /\ \A i \in 1..(Len(ct.windows) - 1) : ct.windows[i + 1].start > ct.windows[i].start

====
